---- MODULE Spec2Model ----
(***************************************************************************)
(* A model of app.py: the vector-shape editor SimpleImageEditor with its   *)
(* Shape Store (ShapeData), its layers (Layer) and its snapshot history    *)
(* (EditorHistory).                                                        *)
(*                                                                         *)
(* Python objects live in a heap (address -> object), so that aliasing and *)
(* copying are what the code makes them: a dict, a list or a Layer is an   *)
(* address, an in-place change is a change of the heap at that address,    *)
(* copy.deepcopy allocates new objects.  Objects no reference reaches are  *)
(* dropped at the end of every handler, and their addresses are reused.    *)
(* An operator that allocates returns the state after it; what it has      *)
(* allocated is at Fresh of the state it was given.                        *)
(*                                                                         *)
(* Coordinates are exact rationals <<n, d>>.  A handler is an operator     *)
(* from the editor's state to its state after the handler; an uncaught     *)
(* exception ends the handler where it is raised (field exc).              *)
(***************************************************************************)
EXTENDS Integers, Sequences, FiniteSets, TLC

VARIABLES
    ed,          \* the SimpleImageEditor object, its widgets and the heap
    ret,         \* what the last direct call of undo/redo/go_to returned
    mouse_down,  \* button 1 is held on the canvas
    nev,         \* number of events handled so far
    gesture      \* bookkeeping of the pointer gesture in progress

vars == <<ed, ret, mouse_down, nev, gesture>>

\* ------------------------------------------------------------ constants

MAX_HISTORY == 30
ERASER_RADIUS == 15
SOFT_ERASER_FADE_STEP == 20
BEND_RADIUS_A == 60
BEND_RADIUS_B == 50
CONNECT_THRESHOLD == 10
DEFAULT_BRUSH_SIZE == 3

DEFAULT_STROKE_COLOR == <<0, 0, 0>>
DEFAULT_FILL_COLOR == <<255, 255, 255>>
NoColor == <<>>

\* The live dict self.shape_data.shapes and the live list self.layers are
\* created once and never rebound: they keep their addresses.
ShapesAddr == 1
LayersAddr == 2

\* None, for an item id, for an index and for an address.
NoItem == 0
NoIndex == -1
NoAddr == 0

LineTypes == {"line", "brush", "bending_line"}

\* ------------------------------------------------------------- numbers

Abs(n) == IF n < 0 THEN -n ELSE n

RECURSIVE Gcd(_, _)
Gcd(a, b) == IF b = 0 THEN a ELSE Gcd(b, a % b)


\* The rational n/d in lowest terms with a positive denominator.
Rat(n, d) ==
    LET g == Gcd(Abs(n), Abs(d))
        s == IF d < 0 THEN -1 ELSE 1
    IN  <<(s * n) \div g, (s * d) \div g>>

Num(n) == <<n, 1>>
NoNum == <<0, 0>>

RAdd(a, b) == Rat(a[1] * b[2] + b[1] * a[2], a[2] * b[2])
RSub(a, b) == Rat(a[1] * b[2] - b[1] * a[2], a[2] * b[2])
RMul(a, b) == Rat(a[1] * b[1], a[2] * b[2])
RDiv(a, b) == Rat(a[1] * b[2], a[2] * b[1])
RLt(a, b) == a[1] * b[2] < b[1] * a[2]
RLe(a, b) == a[1] * b[2] <= b[1] * a[2]
RAbs(a) == <<Abs(a[1]), a[2]>>
RSq(a) == RMul(a, a)

\* 0 <= a < 1/k, without the product a[1] * k.
BelowOneIn(a, k) ==
    \/ a[1] = 0
    \/ a[2] \div a[1] > k
    \/ a[2] \div a[1] = k /\ a[2] % a[1] > 0

\* dx * dx + dy * dy
SqLen(dx, dy) == RAdd(RSq(dx), RSq(dy))

\* math.hypot(dx, dy) compared with a bound, on the squares.
HypotLt(dx, dy, r) == RLt(SqLen(dx, dy), RSq(r))

\* ---------------------------------------------------------- sequences

Range(s) == {s[i] : i \in DOMAIN s}

RECURSIVE SortedSeq(_)
SortedSeq(S) ==
    IF S = {} THEN <<>>
    ELSE LET m == CHOOSE x \in S : \A y \in S : x <= y
         IN  <<m>> \o SortedSeq(S \ {m})

IndexOf(s, x) == CHOOSE i \in DOMAIN s : s[i] = x

RemoveAt(s, i) == SubSeq(s, 1, i - 1) \o SubSeq(s, i + 1, Len(s))

InsertAt(s, i, x) == SubSeq(s, 1, i - 1) \o <<x>> \o SubSeq(s, i, Len(s))

Reverse(s) == [i \in 1..Len(s) |-> s[Len(s) + 1 - i]]

\* ---------------------------------------------------------------- heap
\* The heap is the sequence of the objects; an address is a position in it.
\* Objects, by kind k:
\*   "dict"   m: the (key, record address) pairs of shapes, in insertion order
\*   "shape"  one shape record; coords, anchors, children are list addresses
\*            (NoAddr: the record has no such key)
\*   "list"   v: a list of values (numbers, offsets, item ids, item tuples)
\*   "layers" v: a list of Layer addresses
\*   "layer"  a Layer object; items is a list address

\* The references an object holds, in the order it holds them.
RefsSeq(o) ==
    CASE o.k = "dict" -> [i \in DOMAIN o.m |-> o.m[i].rec]
      [] o.k = "shape" ->
           SelectSeq(<<o.coords, o.anchors, o.children>>, LAMBDA a : a # NoAddr)
      [] o.k = "layers" -> o.v
      [] o.k = "layer" -> <<o.items>>
      [] OTHER -> <<>>

\* The objects reached from the addresses of todo, each once, in the order a
\* depth-first walk meets them.
RECURSIVE Visit(_, _, _)
Visit(heap, todo, done) ==
    IF todo = <<>> THEN done
    ELSE IF Head(todo) \in Range(done) THEN Visit(heap, Tail(todo), done)
    ELSE Visit(heap, RefsSeq(heap[Head(todo)]) \o Tail(todo), Append(done, Head(todo)))

\* The address the next new object gets.
Fresh(st) == Len(st.heap) + 1

\* A new object o: it is at Fresh(st) in the state returned.
New(st, o) == [st EXCEPT !.heap = Append(@, o)]

\* The object o with every address a in it replaced by f[a].
Relocate(o, f) ==
    CASE o.k = "dict" ->
           [o EXCEPT !.m = [i \in DOMAIN o.m |-> [id |-> o.m[i].id, rec |-> f[o.m[i].rec]]]]
      [] o.k = "shape" ->
           [o EXCEPT !.coords = f[@],
                     !.anchors = IF @ = NoAddr THEN NoAddr ELSE f[@],
                     !.children = IF @ = NoAddr THEN NoAddr ELSE f[@]]
      [] o.k = "layers" -> [o EXCEPT !.v = [i \in DOMAIN o.v |-> f[o.v[i]]]]
      [] o.k = "layer" -> [o EXCEPT !.items = f[@]]
      [] OTHER -> o

\* New copies of the objects at the addresses old, in that order, the
\* references among them redirected to the copies.
copy_objects(st, old) ==
    LET f == [x \in Range(old) |-> Len(st.heap) + IndexOf(old, x)]
    IN  [st EXCEPT !.heap = @ \o [i \in 1..Len(old) |-> Relocate(st.heap[old[i]], f)]]

\* copy.deepcopy(x) of the object at address a: every object a reaches is
\* copied to a new address, the values they hold (numbers, strings, tuples)
\* are immutable and shared.  The copy of a itself is at Fresh(st) in the
\* state returned.
deepcopy(st, a) == copy_objects(st, Visit(st.heap, <<a>>, <<>>))

\* The value behind an address, with every address in it replaced by the
\* value it holds: what two structures have in common when they are equal.
RECURSIVE Deref(_, _)
Deref(heap, a) ==
    LET o == heap[a]
    IN  CASE o.k = "dict" ->
               [i \in DOMAIN o.m |-> [id |-> o.m[i].id, rec |-> Deref(heap, o.m[i].rec)]]
          [] o.k = "shape" ->
               [type |-> o.type, fill |-> o.fill, outline |-> o.outline, width |-> o.width,
                text_props |-> o.text_props,
                coords |-> heap[o.coords].v,
                anchors |-> IF o.anchors = NoAddr THEN <<>> ELSE <<heap[o.anchors].v>>,
                children |-> IF o.children = NoAddr THEN <<>> ELSE <<heap[o.children].v>>]
          [] o.k = "layers" -> [i \in DOMAIN o.v |-> Deref(heap, o.v[i])]
          [] o.k = "layer" ->
               [name |-> o.name, visible |-> o.visible, locked |-> o.locked,
                items |-> heap[o.items].v]
          [] OTHER -> o.v

\* ----------------------------------------------------------- tk canvas
\* The canvas holds items (id -> kind, coords, hidden); ids are handed out
\* in increasing order and never reused.

CanvasCountOk(kind, coords) ==
    CASE kind = "line" -> Len(coords) >= 4 /\ Len(coords) % 2 = 0
      [] kind \in {"rectangle", "oval"} -> Len(coords) = 4
      [] OTHER -> Len(coords) = 2

\* An exception is raised and nothing catches it: the rest of the handler
\* does not run (the operators that model the statements after a call that
\* may raise return a state with exc as it is).
Raise(st) == [st EXCEPT !.exc = TRUE]

\* canvas.create_line/create_rectangle/create_oval/create_text: the new id is
\* st.next_id before the call; a wrong number of coordinates is a TclError.
canvas_create(st, kind, coords) ==
    IF ~CanvasCountOk(kind, coords) THEN Raise(st)
    ELSE [st EXCEPT !.canvas = [x \in DOMAIN st.canvas \cup {st.next_id} |->
                                  IF x = st.next_id
                                  THEN [kind |-> kind, coords |-> coords, hidden |-> FALSE]
                                  ELSE st.canvas[x]],
                    !.next_id = st.next_id + 1]

\* canvas.coords(id): the coordinates, [] for an id the canvas does not hold.
canvas_coords(st, id) == IF id \in DOMAIN st.canvas THEN st.canvas[id].coords ELSE <<>>

\* A canvas that takes any number of coordinates.
canvas_set_coords_unchecked(st, id, coords) ==
    IF id \notin DOMAIN st.canvas \/ coords = <<>> THEN st
    ELSE [st EXCEPT !.canvas[id].coords = coords]

\* canvas.coords(id, *coords): nothing for an unknown id, a TclError for a
\* number of coordinates the item's kind does not take; without coordinates
\* the call is the query and changes nothing.
canvas_set_coords(st, id, coords) ==
    IF id \notin DOMAIN st.canvas \/ coords = <<>> THEN st
    ELSE IF ~CanvasCountOk(st.canvas[id].kind, coords) THEN Raise(st)
    ELSE [st EXCEPT !.canvas[id].coords = coords]

canvas_move(st, id, dx, dy) ==
    IF id \notin DOMAIN st.canvas THEN st
    ELSE [st EXCEPT !.canvas[id].coords =
            [i \in DOMAIN @ |-> IF i % 2 = 1 THEN RAdd(@[i], dx) ELSE RAdd(@[i], dy)]]

canvas_delete(st, id) ==
    [st EXCEPT !.canvas = [x \in DOMAIN st.canvas \ {id} |-> st.canvas[x]]]

canvas_delete_all(st) == [st EXCEPT !.canvas = <<>>]

canvas_set_hidden(st, id, h) ==
    IF id \notin DOMAIN st.canvas THEN st ELSE [st EXCEPT !.canvas[id].hidden = h]

\* canvas.itemconfig(id, outline=...) / (id, fill=...): an item kind without
\* the option answers with a TclError.
canvas_itemconfig(st, id, option) ==
    IF id \notin DOMAIN st.canvas THEN st
    ELSE IF option = "outline" /\ st.canvas[id].kind \notin {"rectangle", "oval"}
    THEN Raise(st)
    ELSE st

\* What canvas.find_closest may answer: an item that is not hidden, whichever
\* the renderer finds nearest; nothing on a canvas without such an item.
Closest(st) ==
    IF \A x \in DOMAIN st.canvas : st.canvas[x].hidden THEN {NoItem}
    ELSE {x \in DOMAIN st.canvas : ~st.canvas[x].hidden}

\* ------------------------------------------------- Layer and ShapeData

Layers(st) == st.heap[LayersAddr].v
LayerObj(st, i) == st.heap[Layers(st)[i + 1]]
LayerItems(st, i) == st.heap[LayerObj(st, i).items].v

EmptyList == [k |-> "list", v |-> <<>>]

\* Layer(name, visible, locked): a new Layer with a new, empty list of items.
Layer(st, name, visible, locked) ==
    New(New(st, [k |-> "layer", name |-> name, visible |-> visible,
                 locked |-> locked, items |-> Fresh(st) + 1]),
        EmptyList)

\* Layer.add_item on the Layer at address la: items.append((item_id, shape_type)).
add_item(st, la, item_id, shape_type) ==
    [st EXCEPT !.heap[st.heap[la].items].v = Append(@, <<item_id, shape_type>>)]

\* Layer.remove_item binding self.items to a copy that still lists the item.
remove_item_listed(st, la, item_id) ==
    [New(st, [k |-> "list", v |-> st.heap[st.heap[la].items].v])
        EXCEPT !.heap[la].items = Fresh(st)]

\* Layer.remove_item: self.items is bound to a new list without the item.
remove_item(st, la, item_id) ==
    [New(st, [k |-> "list",
              v |-> SelectSeq(st.heap[st.heap[la].items].v, LAMBDA t : t[1] # item_id)])
        EXCEPT !.heap[la].items = Fresh(st)]

ShapesDict(st) == st.heap[ShapesAddr].m
ShapeKeys(st) == [i \in DOMAIN ShapesDict(st) |-> ShapesDict(st)[i].id]
HasShape(st, id) == \E i \in DOMAIN ShapesDict(st) : ShapesDict(st)[i].id = id
RecAddr(st, id) == ShapesDict(st)[CHOOSE i \in DOMAIN ShapesDict(st) : ShapesDict(st)[i].id = id].rec
ShapeOf(st, id) == st.heap[RecAddr(st, id)]
CoordsOf(st, id) == st.heap[ShapeOf(st, id).coords].v
HasAnchors(st, id) == ShapeOf(st, id).anchors # NoAddr
AnchorsOf(st, id) == st.heap[ShapeOf(st, id).anchors].v

\* shapes[key] = value on the dict at address da: an existing key keeps its
\* place, a new key goes last.
dict_set(st, da, key, ra) ==
    IF \E i \in DOMAIN st.heap[da].m : st.heap[da].m[i].id = key
    THEN [st EXCEPT !.heap[da].m = [i \in DOMAIN @ |->
            IF @[i].id = key THEN [id |-> key, rec |-> ra] ELSE @[i]]]
    ELSE [st EXCEPT !.heap[da].m = Append(@, [id |-> key, rec |-> ra])]

\* ShapeData.store: a new record with a copy of coords, an empty anchors list
\* for line, brush, bending_line and editable_text, an empty children list
\* for a group.
store(st, item_id, shape_type, coords, fill, outline, width) ==
    LET has_anchors == shape_type \in {"line", "brush", "bending_line", "editable_text"}
        has_children == shape_type = "group"
        rec == [k |-> "shape", type |-> shape_type, coords |-> Fresh(st) + 1,
                fill |-> fill, outline |-> outline, width |-> width,
                anchors |-> IF has_anchors THEN Fresh(st) + 2 ELSE NoAddr,
                children |-> IF has_children THEN Fresh(st) + 2 ELSE NoAddr,
                text_props |-> "absent"]
        lists == IF has_anchors \/ has_children
                 THEN <<[k |-> "list", v |-> coords], EmptyList>>
                 ELSE <<[k |-> "list", v |-> coords]>>
    IN  dict_set([st EXCEPT !.heap = @ \o <<rec>> \o lists], ShapesAddr, item_id, Fresh(st))

\* ShapeData.remove
remove(st, item_id) ==
    [st EXCEPT !.heap[ShapesAddr].m = SelectSeq(@, LAMBDA p : p.id # item_id)]

\* The record's coords is bound to the caller's list itself, the newest list
\* of the heap that holds new_coords, where there is one.
update_coords_shared(st, item_id, new_coords) ==
    IF st.exc \/ ~HasShape(st, item_id) THEN st
    ELSE IF \E a \in DOMAIN st.heap : st.heap[a] = [k |-> "list", v |-> new_coords]
    THEN [st EXCEPT !.heap[RecAddr(st, item_id)].coords =
             CHOOSE a \in DOMAIN st.heap :
                 /\ st.heap[a] = [k |-> "list", v |-> new_coords]
                 /\ \A b \in DOMAIN st.heap :
                        st.heap[b] = [k |-> "list", v |-> new_coords] => b <= a]
    ELSE [New(st, [k |-> "list", v |-> new_coords])
            EXCEPT !.heap[RecAddr(st, item_id)].coords = Fresh(st)]

\* ShapeData.update_coords: the record's coords is bound to a copy of new_coords.
update_coords(st, item_id, new_coords) ==
    IF st.exc \/ ~HasShape(st, item_id) THEN st
    ELSE [New(st, [k |-> "list", v |-> new_coords])
            EXCEPT !.heap[RecAddr(st, item_id)].coords = Fresh(st)]

\* ------------------------------------------------------- EditorHistory
\* An entry of states is the tuple (shape_data_copy, layers_copy, description):
\* the address of a dict, the address of a list of Layers, a string.

NoEntry == [shapes |-> NoAddr, layers |-> NoAddr, desc |-> "None"]

\* The entries after current_index survive the push.
keep_redo(states, current_index) == states

\* push_state, lines 138-139: the entries after current_index are dropped.
truncate_redo(states, current_index) ==
    IF current_index < Len(states) - 1 THEN SubSeq(states, 1, current_index + 1) ELSE states

\* At capacity the newest entry is dropped.
evict_newest(states) ==
    IF Len(states) >= MAX_HISTORY THEN SubSeq(states, 1, Len(states) - 1) ELSE states

\* Nothing is dropped at capacity.
evict_none(states) == states

\* push_state, lines 140-142: at capacity the oldest entry is dropped.
evict_oldest(states) ==
    IF Len(states) >= MAX_HISTORY THEN Tail(states) ELSE states

\* copy.copy(shape_data.shapes): a new dict that holds the records of the
\* live one.
shallow_copy_shapes(st) == New(st, st.heap[ShapesAddr])

\* push_state, line 143: copy.deepcopy(shape_data.shapes).
copy_shapes(st) == deepcopy(st, ShapesAddr)

\* push_state, line 147: new_layer.items = copy.deepcopy(lyr.items), on the
\* new Layer at address na; n is the state the copy is made in.
copy_items(n, na, items) == [deepcopy(n, items) EXCEPT !.heap[na].items = Fresh(n)]

\* push_state, lines 146-147: Layer(lyr.name, lyr.visible, lyr.locked) with a
\* deep copy of lyr.items, for the Layer lyr.
copy_layer(st, lyr) ==
    copy_items(Layer(st, lyr.name, lyr.visible, lyr.locked), Fresh(st), lyr.items)

\* push_state, lines 145-148: layers_copy, at address lc, filled layer by layer.
RECURSIVE copy_layers_from(_, _, _)
copy_layers_from(st, i, lc) ==
    IF i > Len(Layers(st)) THEN st
    ELSE copy_layers_from([copy_layer(st, st.heap[Layers(st)[i]])
                             EXCEPT !.heap[lc].v = Append(@, Fresh(st))], i + 1, lc)

\* push_state, lines 144-148.
copy_layers(st) == copy_layers_from(New(st, [k |-> "layers", v |-> <<>>]), 1, Fresh(st))

\* The entry is appended and current_index left where it was.
append_state_index_kept(st, kept, entry) == [st EXCEPT !.states = Append(kept, entry)]

\* push_state, lines 149-150: the entry is appended to what lines 138-142
\* have kept, and is the current one.
append_state(st, kept, entry) ==
    [st EXCEPT !.states = Append(kept, entry), !.current_index = Len(kept)]

\* push_state, lines 143-148, s the state with the copy of the shapes.
push_copies(st, s, description) ==
    append_state(copy_layers(s),
                 evict_oldest(truncate_redo(st.states, st.current_index)),
                 [shapes |-> Fresh(st), layers |-> Fresh(s), desc |-> description])

push_state(st, description) ==
    CHOOSE after \in {push_copies(st, s, description) : s \in {copy_shapes(st)}} : TRUE

can_undo(st) == st.current_index > 0

can_redo(st) == st.current_index < Len(st.states) - 1

\* An undo that goes back to the oldest entry.
undo_to_first(st) ==
    IF can_undo(st)
    THEN [st |-> [st EXCEPT !.current_index = 0], ret |-> st.states[1]]
    ELSE [st |-> st, ret |-> NoEntry]

\* undo, redo, go_to: the state after the call and the entry returned (NoEntry
\* for None).
undo(st) ==
    IF can_undo(st)
    THEN [st |-> [st EXCEPT !.current_index = @ - 1], ret |-> st.states[st.current_index]]
    ELSE [st |-> st, ret |-> NoEntry]

\* A redo that goes on to the newest entry.
redo_to_last(st) ==
    IF can_redo(st)
    THEN [st |-> [st EXCEPT !.current_index = Len(st.states) - 1],
          ret |-> st.states[Len(st.states)]]
    ELSE [st |-> st, ret |-> NoEntry]

redo(st) ==
    IF can_redo(st)
    THEN [st |-> [st EXCEPT !.current_index = @ + 1], ret |-> st.states[st.current_index + 2]]
    ELSE [st |-> st, ret |-> NoEntry]

\* An index out of range is taken for the nearest one in range.
go_to_nearest(st, idx) ==
    IF st.states = <<>> THEN [st |-> st, ret |-> NoEntry]
    ELSE LET i == IF idx < 0 THEN 0
                  ELSE IF idx >= Len(st.states) THEN Len(st.states) - 1 ELSE idx
         IN  [st |-> [st EXCEPT !.current_index = i], ret |-> st.states[i + 1]]

go_to(st, idx) ==
    IF 0 <= idx /\ idx < Len(st.states)
    THEN [st |-> [st EXCEPT !.current_index = idx], ret |-> st.states[idx + 1]]
    ELSE [st |-> st, ret |-> NoEntry]

get_all_descriptions(st) == [i \in DOMAIN st.states |-> st.states[i].desc]

\* --------------------------------------------------- SimpleImageEditor
\* The editor after __init__ has built its fields and widgets (lines 191-233),
\* before it adds "Layer 1": an empty Shape Store, no layer, an empty history.

EditorNew ==
    [heap |-> <<[k |-> "dict", m |-> <<>>], [k |-> "layers", v |-> <<>>]>>,
     canvas |-> <<>>,
     next_id |-> 1,
     layer_listbox |-> <<>>,
     layer_sel |-> NoIndex,
     history_listbox |-> <<>>,
     current_layer_index |-> NoIndex,
     selected_items |-> {},
     brush_size |-> DEFAULT_BRUSH_SIZE,
     stroke_color |-> DEFAULT_STROKE_COLOR,
     fill_color |-> DEFAULT_FILL_COLOR,
     current_tool |-> "None",
     temp_item |-> NoItem,
     start_x |-> NoNum, start_y |-> NoNum,
     last_x |-> NoNum, last_y |-> NoNum,
     select_rect_id |-> NoItem,
     bendA_active |-> FALSE,
     bendB_active |-> FALSE,
     bend_dragging |-> FALSE,
     bend_target |-> NoItem,
     bendA_dragging_anchor_idx |-> NoIndex,
     bendA_segment_idx |-> NoIndex,
     bendB_dragging_anchor_idx |-> NoIndex,
     direct_select_dragging_anchor |-> <<>>,
     direct_select_drag_index |-> NoIndex,
     direct_select_anchors |-> <<>>,
     states |-> <<>>,
     current_index |-> -1,
     pushes |-> 0,   \* calls of push_history in the handler that ran last
     exc |-> FALSE]  \* that handler ended in an uncaught exception

\* find_layer_of_item: the address of the first layer that lists the item.
find_layer_of_item(st, item_id) ==
    LET has == {i \in DOMAIN Layers(st) :
                  \E t \in Range(st.heap[st.heap[Layers(st)[i]].items].v) : t[1] = item_id}
    IN  IF has = {} THEN NoAddr
        ELSE Layers(st)[CHOOSE i \in has : \A j \in has : i <= j]

\* erase_item, lines 965-967, la the Layer find_layer_of_item has found.
unlist_item(st, la, item_id) ==
    IF la # NoAddr THEN remove_item(st, la, item_id) ELSE st

erase_item(st, item_id) ==
    [canvas_delete(remove(unlist_item(st, find_layer_of_item(st, item_id), item_id),
                          item_id), item_id)
        EXCEPT !.selected_items = @ \ {item_id}]

\* Not reached after an exception.
refresh_history_listbox(st) ==
    IF st.exc THEN st ELSE [st EXCEPT !.history_listbox = get_all_descriptions(st)]

\* auto_connect_lines, lines 1185-1201: the endpoint pairs (i, j, e1, e2) of two
\* chains closer than CONNECT_THRESHOLD, i and j positions in the key list,
\* e1 and e2 0 for the first point and 1 for the last.
Endpoint(c, e) == IF e = 0 THEN <<c[1], c[2]>> ELSE <<c[Len(c) - 1], c[Len(c)]>>

IsChain(st, id) == HasShape(st, id) /\ ShapeOf(st, id).type \in LineTypes

Near(p1, p2) == HypotLt(RSub(p1[1], p2[1]), RSub(p1[2], p2[2]), Num(CONNECT_THRESHOLD))

\* The positions in the key list of the chains without a coordinate: reading
\* their endpoints, lines 1191 and 1198, is an IndexError.
EmptyChains(st) ==
    {i \in DOMAIN ShapesDict(st) :
        IsChain(st, ShapesDict(st)[i].id) /\ CoordsOf(st, ShapesDict(st)[i].id) = <<>>}

ConnectPairs(st) ==
    {q \in (DOMAIN ShapesDict(st)) \X (DOMAIN ShapesDict(st)) \X {0, 1} \X {0, 1} :
       /\ q[1] < q[2]
       /\ IsChain(st, ShapesDict(st)[q[1]].id)
       /\ IsChain(st, ShapesDict(st)[q[2]].id)
       /\ q[1] \notin EmptyChains(st)
       /\ q[2] \notin EmptyChains(st)
       /\ Near(Endpoint(CoordsOf(st, ShapesDict(st)[q[1]].id), q[3]),
               Endpoint(CoordsOf(st, ShapesDict(st)[q[2]].id), q[4]))}

\* The pair the four nested loops meet first.
LoopRank(q, n) == ((q[1] * (n + 1) + q[2]) * 2 + q[3]) * 2 + q[4]

FirstPair(S, n) == CHOOSE q \in S : \A r \in S : LoopRank(q, n) <= LoopRank(r, n)

\* auto_connect_lines, lines 1202-1211: the coordinates of the merged chain;
\* idx1 and idx2 are the offsets of the two endpoints.
merged_coords(coords1, coords2, idx1, idx2) ==
    IF idx1 = Len(coords1) - 2 /\ idx2 = 0
    THEN coords1 \o SubSeq(coords2, 3, Len(coords2))
    ELSE IF idx1 = 0 /\ idx2 = Len(coords2) - 2
    THEN coords2 \o SubSeq(coords1, 3, Len(coords1))
    ELSE IF idx1 = Len(coords1) - 2 /\ idx2 = Len(coords2) - 2
    THEN coords1 \o Reverse(SubSeq(coords2, 1, Len(coords2) - 1))
    ELSE IF idx1 = 0 /\ idx2 = 0
    THEN Reverse(coords2) \o SubSeq(coords1, 3, Len(coords1))
    ELSE coords1 \o coords2

\* zip(endpoints, (0, len(coords) - 2)): the offset of endpoint e.
EndOffset(coords, e) == IF e = 0 THEN 0 ELSE Len(coords) - 2

\* line 1214, not reached after an exception.
erase_merged(st, id2) == IF st.exc THEN st ELSE erase_item(st, id2)

\* lines 1212-1214 for the shapes id1 and id2.
connect_pair(st, id1, id2, new_coords) ==
    erase_merged(update_coords(canvas_set_coords(st, id1, new_coords), id1, new_coords),
                 id2)

\* The first pair the loops meet is merged.
connect_first(st, q) ==
    connect_pair(st, ShapesDict(st)[q[1]].id, ShapesDict(st)[q[2]].id,
                 merged_coords(CoordsOf(st, ShapesDict(st)[q[1]].id),
                               CoordsOf(st, ShapesDict(st)[q[2]].id),
                               EndOffset(CoordsOf(st, ShapesDict(st)[q[1]].id), q[3]),
                               EndOffset(CoordsOf(st, ShapesDict(st)[q[2]].id), q[4])))

\* Where the loops read the endpoints of the first chain without a
\* coordinate, e: as the second chain of the first chain before it, or else as
\* the first chain.
EmptyRank(st, e, n) ==
    IF \E i \in 1..(e - 1) : IsChain(st, ShapesDict(st)[i].id)
    THEN LoopRank(<<CHOOSE i \in 1..(e - 1) :
                      /\ IsChain(st, ShapesDict(st)[i].id)
                      /\ \A k \in 1..(i - 1) : ~IsChain(st, ShapesDict(st)[k].id),
                    e, 0, 0>>, n)
    ELSE LoopRank(<<e, 0, 0, 0>>, n)

\* The loops read the endpoints of a chain without a coordinate before they
\* meet a pair to merge.
ReadsEmptyChain(st) ==
    /\ EmptyChains(st) # {}
    /\ \/ ConnectPairs(st) = {}
       \/ EmptyRank(st, CHOOSE e \in EmptyChains(st) : \A k \in EmptyChains(st) : e <= k,
                    Len(ShapesDict(st)))
             < LoopRank(FirstPair(ConnectPairs(st), Len(ShapesDict(st))), Len(ShapesDict(st)))

\* auto_connect_lines: after a merge the method calls itself.
RECURSIVE auto_connect_lines(_)
auto_connect_lines(st) ==
    IF st.exc THEN st
    ELSE IF ReadsEmptyChain(st) THEN Raise(st)
    ELSE IF ConnectPairs(st) = {} THEN st
    ELSE auto_connect_lines(
             connect_first(st, FirstPair(ConnectPairs(st), Len(ShapesDict(st)))))

\* push_history: the snapshot, the history list box, then the auto-connect.
push_history(st, description) ==
    IF st.exc THEN st
    ELSE CHOOSE after \in {auto_connect_lines(refresh_history_listbox(
                               [pushed_state EXCEPT !.pushes = @ + 1])) :
                              pushed_state \in {push_state(st, description)}} : TRUE

on_layer_select(st) ==
    IF st.layer_sel # NoIndex THEN [st EXCEPT !.current_layer_index = st.layer_sel] ELSE st

LayerName(n) == "Layer " \o ToString(n)

\* add_layer, lines 349-353, for the name nm.
insert_layer(st, nm) ==
    [Layer(st, nm, TRUE, FALSE) EXCEPT !.heap[LayersAddr].v = <<Fresh(st)>> \o @,
                                       !.layer_listbox = <<nm>> \o @,
                                       !.layer_sel = 0]

add_named_layer(st, nm) ==
    push_history(on_layer_select(insert_layer(st, nm)), "Added layer " \o nm)

\* add_layer(name); name "" stands for None.
add_layer(st, name) ==
    add_named_layer(st, IF name = "" THEN LayerName(Len(Layers(st)) + 1) ELSE name)

ListboxName(lyr) == IF lyr.visible THEN lyr.name ELSE lyr.name \o " (hidden)"

RECURSIVE set_hidden_all(_, _, _)
set_hidden_all(st, items, h) ==
    IF items = <<>> THEN st
    ELSE set_hidden_all(canvas_set_hidden(st, items[1][1], h), Tail(items), h)

\* toggle_layer_visibility, lines 405-413, for the layer at idx, which is shown
\* (visible) after the toggle or not.
set_layer_visible(st, idx, visible) ==
    [set_hidden_all(st, LayerItems(st, idx), ~visible)
        EXCEPT !.heap[Layers(st)[idx + 1]].visible = visible,
               !.layer_listbox[idx + 1] =
                   ListboxName([name |-> LayerObj(st, idx).name, visible |-> visible])]

toggle_layer_visibility(st) ==
    IF st.layer_sel = NoIndex THEN st
    ELSE push_history(set_layer_visible(st, st.layer_sel, ~LayerObj(st, st.layer_sel).visible),
                      "Toggled layer " \o LayerObj(st, st.layer_sel).name)

\* apply_history_state, lines 484-527: the canvas item a shape of a snapshot
\* is drawn as.
CanvasKind(stype) ==
    CASE stype = "rectangle" -> "rectangle"
      [] stype = "ellipse" -> "oval"
      [] stype \in {"editable_text", "text", "image"} -> "text"
      [] stype = "group" -> "rectangle"
      [] OTHER -> "line"

CanvasCoordsFor(stype, coords) ==
    CASE stype \in {"editable_text", "text", "image"} -> SubSeq(coords, 1, 2)
      [] stype = "group" -> <<Num(0), Num(0), Num(0), Num(0)>>
      [] OTHER -> coords

\* self.shape_data.shapes[new_id] = sdata: the live dict holds the record of
\* the snapshot.
restore_record_shared(st, new_id, rec) ==
    IF st.exc THEN st ELSE dict_set(st, ShapesAddr, new_id, rec)

\* line 527: self.shape_data.shapes[new_id] = copy.deepcopy(sdata); not
\* reached when the canvas has refused the item.
restore_record(st, new_id, rec) ==
    IF st.exc THEN st ELSE dict_set(deepcopy(st, rec), ShapesAddr, new_id, Fresh(st))

\* lines 484-527 for one shape of the snapshot, its record at address rec.
restore_shape(st, rec) ==
    restore_record(canvas_create(st, CanvasKind(st.heap[rec].type),
                                 CanvasCoordsFor(st.heap[rec].type,
                                                 st.heap[st.heap[rec].coords].v)),
                   st.next_id, rec)

\* lines 483-527: the shapes of the snapshot from the i-th on are drawn and
\* stored under their new ids; o2n is old_to_new.
RECURSIVE restore_shapes(_, _, _, _)
restore_shapes(st, shape_dict, i, o2n) ==
    IF st.exc \/ i > Len(st.heap[shape_dict].m) THEN [st |-> st, o2n |-> o2n]
    ELSE restore_shapes(restore_shape(st, st.heap[shape_dict].m[i].rec),
                        shape_dict, i + 1,
                        (st.heap[shape_dict].m[i].id :> st.next_id) @@ o2n)

\* lines 530-533: ni, the items of the snapshot layer that old_to_new knows,
\* under their new ids.
new_items(old, o2n) ==
    LET kept == SelectSeq(old, LAMBDA t : t[1] \in DOMAIN o2n)
    IN  [j \in DOMAIN kept |-> <<o2n[kept[j][1]], kept[j][2]>>]

\* lines 529-537 for one layer of the snapshot: a new Layer, ni for its items.
restore_layer(st, laycopy, o2n) ==
    [New(Layer(st, laycopy.name, laycopy.visible, laycopy.locked),
         [k |-> "list", v |-> new_items(st.heap[laycopy.items].v, o2n)])
        EXCEPT !.heap[Fresh(st)].items = Fresh(st) + 2,
               !.heap[LayersAddr].v = Append(@, Fresh(st)),
               !.layer_listbox = Append(@, ListboxName(laycopy))]

RECURSIVE restore_layers(_, _, _, _)
restore_layers(st, layers_c, i, o2n) ==
    IF i > Len(st.heap[layers_c].v) THEN st
    ELSE restore_layers(restore_layer(st, st.heap[st.heap[layers_c].v[i]], o2n),
                        layers_c, i + 1, o2n)

\* lines 538-541: the items of the layers that are not visible are hidden.
RECURSIVE hide_invisible(_, _)
hide_invisible(st, i) ==
    IF i >= Len(Layers(st)) THEN st
    ELSE hide_invisible(IF LayerObj(st, i).visible THEN st
                        ELSE set_hidden_all(st, LayerItems(st, i), TRUE), i + 1)

\* lines 476-482: the canvas, the Shape Store, the layers, the layer list box
\* and the selection are emptied.
clear_all(st) ==
    [canvas_delete_all(st) EXCEPT !.heap[ShapesAddr].m = <<>>,
                                  !.heap[LayersAddr].v = <<>>,
                                  !.layer_listbox = <<>>,
                                  !.layer_sel = NoIndex,
                                  !.selected_items = {}]

\* lines 528-541, r what restore_shapes has left.
restore_rest(r, layers_c) ==
    IF r.st.exc THEN r.st
    ELSE hide_invisible(restore_layers(r.st, layers_c, 1, r.o2n), 0)

apply_history_state(st, state) ==
    restore_rest(restore_shapes(clear_all(st), state.shapes, 1, <<>>), state.layers)

\* do_undo, do_redo, on_history_select: after the call r of the history, the
\* entry it returned, if any, is applied and the list box refreshed.
apply_returned(r) ==
    IF r.ret = NoEntry THEN r.st
    ELSE refresh_history_listbox(apply_history_state(r.st, r.ret))

do_undo(st) == apply_returned(undo(st))

do_redo(st) == apply_returned(redo(st))

\* on_history_select; sel is the list box's selection (NoIndex: none).
on_history_select(st, sel) ==
    IF sel = NoIndex THEN st ELSE apply_returned(go_to(st, sel))

\* ------------------------------------------------------------ geometry

\* The largest k in lo..hi with k * k <= n.
RECURSIVE ISqrtIn(_, _, _)
ISqrtIn(n, lo, hi) ==
    IF lo >= hi THEN lo
    ELSE IF ((lo + hi + 1) \div 2) * ((lo + hi + 1) \div 2) <= n
    THEN ISqrtIn(n, (lo + hi + 1) \div 2, hi)
    ELSE ISqrtIn(n, lo, ((lo + hi + 1) \div 2) - 1)

ISqrt(n) == ISqrtIn(n, 0, IF n < 46340 THEN n ELSE 46340)

\* Digits the square root of a number that has no rational root is kept to.
SqrtScale == 100

\* The square root of the rational q: exact when q is the square of a
\* rational, rounded down to a multiple of 1/SqrtScale otherwise (the float
\* the program computes is rounded as well, further out).
RSqrt(q) ==
    IF ISqrt(q[1]) * ISqrt(q[1]) = q[1] /\ ISqrt(q[2]) * ISqrt(q[2]) = q[2]
    THEN Rat(ISqrt(q[1]), ISqrt(q[2]))
    ELSE Rat(ISqrt((q[1] * SqrtScale * SqrtScale) \div q[2]), SqrtScale)

\* math.hypot(dx, dy)
hypot(dx, dy) == RSqrt(SqLen(dx, dy))

\* The point a fraction t of the way from v1 to v2: v1 + t * (v2 - v1).
Along(v1, v2, t) == RAdd(v1, RMul(t, RSub(v2, v1)))

\* The distance to the segment's start whatever t is, squared.
dist2_to_start(px, py, x1, y1, x2, y2, t) == SqLen(RSub(px, x1), RSub(py, y1))

\* point_segment_dist, lines 1401-1407, squared: t is the place on the
\* segment nearest to the point.
dist2_at(px, py, x1, y1, x2, y2, t) ==
    IF RLt(t, Num(0)) THEN SqLen(RSub(px, x1), RSub(py, y1))
    ELSE IF RLt(Num(1), t) THEN SqLen(RSub(px, x2), RSub(py, y2))
    ELSE SqLen(RSub(px, Along(x1, x2, t)), RSub(py, Along(y1, y2, t)))

\* The distance to the line through the segment, t not clamped, squared.
dist2_on_line(px, py, x1, y1, x2, y2, seg_len_sq) ==
    IF seg_len_sq = Num(0) THEN SqLen(RSub(px, x1), RSub(py, y1))
    ELSE SqLen(RSub(px, Along(x1, x2, RDiv(RAdd(RMul(RSub(px, x1), RSub(x2, x1)),
                                               RMul(RSub(py, y1), RSub(y2, y1))),
                                          seg_len_sq))),
               RSub(py, Along(y1, y2, RDiv(RAdd(RMul(RSub(px, x1), RSub(x2, x1)),
                                               RMul(RSub(py, y1), RSub(y2, y1))),
                                          seg_len_sq))))

\* lines 1398-1400.
dist2_on(px, py, x1, y1, x2, y2, seg_len_sq) ==
    IF seg_len_sq = Num(0) THEN SqLen(RSub(px, x1), RSub(py, y1))
    ELSE dist2_at(px, py, x1, y1, x2, y2,
                  RDiv(RAdd(RMul(RSub(px, x1), RSub(x2, x1)),
                            RMul(RSub(py, y1), RSub(y2, y1))), seg_len_sq))

\* point_segment_dist, squared: the rational the distance is the root of.
point_segment_dist2(px, py, x1, y1, x2, y2) ==
    dist2_on(px, py, x1, y1, x2, y2, SqLen(RSub(x2, x1), RSub(y2, y1)))

point_segment_dist(px, py, x1, y1, x2, y2) ==
    RSqrt(point_segment_dist2(px, py, x1, y1, x2, y2))

IndexError == -2

\* The candidate also when it is as near as the best so far.
nearer_or_equal(best, cand) ==
    IF best[1] = NoIndex \/ RLe(cand[2], best[2]) THEN cand ELSE best

\* lines 1390-1392: the best (offset, squared distance) so far, or the
\* candidate when it is nearer.
nearer(best, cand) ==
    IF best[1] = NoIndex \/ RLt(cand[2], best[2]) THEN cand ELSE best

\* find_closest_segment_index, the loop from offset i on with the best so
\* far; distances compare as their squares do. The loop reads coords[i + 3]:
\* past the end of a list of odd length.
RECURSIVE closest_segment_from(_, _, _, _, _)
closest_segment_from(mx, my, coords, i, best) ==
    IF i >= Len(coords) - 2 THEN best[1]
    ELSE IF i + 3 >= Len(coords) THEN IndexError
    ELSE CHOOSE found \in
             {closest_segment_from(mx, my, coords, i + 2, nearer(best, <<i, d>>)) :
                d \in {point_segment_dist2(mx, my, coords[i + 1], coords[i + 2],
                                           coords[i + 3], coords[i + 4])}} : TRUE

find_closest_segment_index(mx, my, coords) ==
    closest_segment_from(mx, my, coords, 0, <<NoIndex, Num(0)>>)

\* find_nearby_anchor, the loop from the k-th anchor on: the first anchor
\* offset whose point is within radius of (mx, my) in x and in y.
RECURSIVE nearby_anchor_from(_, _, _, _, _, _)
nearby_anchor_from(coords, anchors, k, mx, my, radius) ==
    IF k > Len(anchors) THEN NoIndex
    ELSE IF anchors[k] + 1 >= Len(coords) THEN IndexError
    ELSE IF /\ RLt(RAbs(RSub(mx, coords[anchors[k] + 1])), radius)
            /\ RLt(RAbs(RSub(my, coords[anchors[k] + 2])), radius)
         THEN anchors[k]
         ELSE nearby_anchor_from(coords, anchors, k + 1, mx, my, radius)

find_nearby_anchor(st, item_id, mx, my, radius) ==
    IF ~HasShape(st, item_id) \/ ~HasAnchors(st, item_id) THEN NoIndex
    ELSE nearby_anchor_from(CoordsOf(st, item_id), AnchorsOf(st, item_id), 1, mx, my, radius)

\* (1 - t) * v1 + t * v2
Lerp(v1, v2, t) == RAdd(RMul(RSub(Num(1), t), v1), RMul(t, v2))

\* The points between the offsets and the point after end_idx too, each on
\* the straight line through the two.
spread_past_end(coords, start_idx, end_idx, num_points) ==
    IF num_points <= 0 THEN coords
    ELSE [j \in DOMAIN coords |->
            IF j - 1 - start_idx >= 2 /\ (j - 1 - start_idx) \div 2 <= num_points + 2
            THEN Lerp(coords[start_idx + 1 + ((j - 1 - start_idx) % 2)],
                      coords[end_idx + 1 + ((j - 1 - start_idx) % 2)],
                      Rat((j - 1 - start_idx) \div 2, num_points + 1))
            ELSE coords[j]]

\* local_anchor_interpolation, lines 1364-1371: the num_points points between
\* the offsets are spread evenly on the straight line between the two.
spread(coords, start_idx, end_idx, num_points) ==
    IF num_points <= 0 THEN coords
    ELSE [j \in DOMAIN coords |->
            IF j - 1 - start_idx >= 2 /\ (j - 1 - start_idx) \div 2 <= num_points
            THEN Lerp(coords[start_idx + 1 + ((j - 1 - start_idx) % 2)],
                      coords[end_idx + 1 + ((j - 1 - start_idx) % 2)],
                      Rat((j - 1 - start_idx) \div 2, num_points + 1))
            ELSE coords[j]]

\* The interpolation without the exchange of the offsets of lines 1358-1359.
local_anchor_interpolation_in_order(coords, start_idx, end_idx) ==
    spread(coords, start_idx, end_idx, ((end_idx - start_idx) \div 2) - 1)

local_anchor_interpolation(coords, start_idx, end_idx) ==
    IF end_idx < start_idx
    THEN spread(coords, end_idx, start_idx, ((start_idx - end_idx) \div 2) - 1)
    ELSE spread(coords, start_idx, end_idx, ((end_idx - start_idx) \div 2) - 1)

\* 16 u / (5 - 4 u)
Bhaskara(u) == RDiv(RMul(Num(16), u), RSub(Num(5), RMul(Num(4), u)))

\* math.sin(math.pi * t) for t in 0..1, by Bhaskara's formula
\* 16 t (1 - t) / (5 - 4 t (1 - t)).
SinPi(t) == Bhaskara(RMul(t, RSub(Num(1), t)))

\* lines 1348-1352: a coordinate on the line, moved by offset * perp, perp
\* being d / length.
arc_point(v1, v2, t, d, length) ==
    IF length # Num(0)
    THEN RAdd(Lerp(v1, v2, t), RMul(RMul(Num(10), SinPi(t)), RDiv(d, length)))
    ELSE Lerp(v1, v2, t)

\* lines 1341-1355, with dx, dy and length of lines 1345-1347.
arc_points(coords, start_idx, end_idx, num_points, dx, dy, length) ==
    [j \in DOMAIN coords |->
        IF j - 1 - start_idx >= 2 /\ (j - 1 - start_idx) \div 2 <= num_points
        THEN IF (j - 1 - start_idx) % 2 = 0
             THEN arc_point(coords[start_idx + 1], coords[end_idx + 1],
                            Rat((j - 1 - start_idx) \div 2, num_points + 1),
                            RSub(Num(0), dy), length)
             ELSE arc_point(coords[start_idx + 2], coords[end_idx + 2],
                            Rat((j - 1 - start_idx) \div 2, num_points + 1),
                            dx, length)
        ELSE coords[j]]

arc_between(coords, start_idx, end_idx, dx, dy) ==
    arc_points(coords, start_idx, end_idx, ((end_idx - start_idx) \div 2) - 1,
               dx, dy, hypot(dx, dy))

\* arc_anchor_interpolation: as the local one, each point then moved off the
\* line by 10 * sin(pi * t) along the normal.
arc_anchor_interpolation(coords, start_idx, end_idx) ==
    IF ((end_idx - start_idx) \div 2) - 1 <= 0 THEN coords
    ELSE arc_between(coords, start_idx, end_idx,
                     RSub(coords[end_idx + 1], coords[start_idx + 1]),
                     RSub(coords[end_idx + 2], coords[start_idx + 2]))

\* The coordinate moved however far the point is from the pointer's last
\* position.
pushed_everywhere(c, d, dist, radius) ==
    RAdd(c, RMul(d, RSub(Num(1), RDiv(dist, radius))))

\* lines 1303-1306: the coordinate c of a point at dist from the pointer's
\* last position moves by d * (1 - dist / radius).
pushed(c, d, dist, radius) ==
    IF RLt(dist, radius) THEN RAdd(c, RMul(d, RSub(Num(1), RDiv(dist, radius)))) ELSE c

\* bend_tool_a_push / bend_tool_b_push: every point nearer than radius to the
\* pointer's last position moves by (dx, dy) * (1 - dist / radius).
radial_push(coords, last_x, last_y, mx, my, radius) ==
    [j \in DOMAIN coords |->
        IF j % 2 = 1
        THEN pushed(coords[j], RSub(mx, last_x),
                    hypot(RSub(coords[j], last_x), RSub(coords[j + 1], last_y)), radius)
        ELSE pushed(coords[j], RSub(my, last_y),
                    hypot(RSub(coords[j - 1], last_x), RSub(coords[j], last_y)), radius)]

bend_tool_a_push(coords, last_x, last_y, mx, my) ==
    radial_push(coords, last_x, last_y, mx, my, Num(BEND_RADIUS_A))

bend_tool_b_push(coords, last_x, last_y, mx, my) ==
    radial_push(coords, last_x, last_y, mx, my, Num(BEND_RADIUS_B))

\* ---------------------------------------------- selection and handles

\* The list at address a holds v from now on (a change in place).
list_set(st, a, v) == [st EXCEPT !.heap[a].v = v]

RECURSIVE delete_handles(_, _)
delete_handles(st, hs) ==
    IF hs = <<>> THEN st ELSE delete_handles(canvas_delete(st, hs[1][1]), Tail(hs))

\* clear_direct_select_anchors
clear_direct_select_anchors(st) ==
    [delete_handles(st, st.direct_select_anchors) EXCEPT !.direct_select_anchors = <<>>]

\* select_tool, lines 283-285.
delete_select_rect(st) ==
    IF st.select_rect_id # NoItem
    THEN [canvas_delete(st, st.select_rect_id) EXCEPT !.select_rect_id = NoItem]
    ELSE st

\* select_tool
select_tool(st, tool_name) ==
    clear_direct_select_anchors(delete_select_rect(
        [st EXCEPT
           !.current_tool = tool_name,
           !.selected_items = IF tool_name \in {"Select", "Direct Select"} THEN @ ELSE {},
           !.bendA_active = (tool_name = "Bend Tool A"),
           !.bendB_active = (tool_name = "Bend Tool B"),
           !.bend_dragging = FALSE,
           !.bend_target = NoItem,
           !.bendA_dragging_anchor_idx = NoIndex,
           !.bendA_segment_idx = NoIndex,
           !.bendB_dragging_anchor_idx = NoIndex]))

\* The box of a handle on the point (x, y).
HandleBox(x, y) == <<RSub(x, Num(3)), RSub(y, Num(3)), RAdd(x, Num(3)), RAdd(y, Num(3))>>

\* show_direct_select_anchors, lines 1041-1046: a handle for the point at
\* offset i and for those after it; a coords of odd length ends the loop with
\* an IndexError at its last element.
RECURSIVE make_handles(_, _, _, _)
make_handles(st, item_id, coords, i) ==
    IF i >= Len(coords) THEN st
    ELSE IF i + 1 >= Len(coords) THEN Raise(st)
    ELSE make_handles(
             [canvas_create(st, "rectangle", HandleBox(coords[i + 1], coords[i + 2]))
                 EXCEPT !.direct_select_anchors = Append(@, <<st.next_id, item_id, i>>)],
             item_id, coords, i + 2)

\* show_direct_select_anchors, lines 1035-1046.
show_handles(st, item_id) ==
    IF ~HasShape(st, item_id) THEN st
    ELSE make_handles(st, item_id, CoordsOf(st, item_id), 0)

show_direct_select_anchors(st, item_id) ==
    IF st.exc THEN st ELSE show_handles(clear_direct_select_anchors(st), item_id)

\* update_direct_select_anchors, lines 1054-1060, from the k-th handle on.
RECURSIVE move_handles(_, _, _, _)
move_handles(st, item_id, coords, k) ==
    IF k > Len(st.direct_select_anchors) THEN st
    ELSE IF st.direct_select_anchors[k][2] # item_id
    THEN move_handles(st, item_id, coords, k + 1)
    ELSE IF st.direct_select_anchors[k][3] + 1 >= Len(coords) THEN Raise(st)
    ELSE move_handles(
             canvas_set_coords(st, st.direct_select_anchors[k][1],
                               HandleBox(coords[st.direct_select_anchors[k][3] + 1],
                                         coords[st.direct_select_anchors[k][3] + 2])),
             item_id, coords, k + 1)

update_direct_select_anchors(st, item_id) ==
    IF st.exc \/ ~HasShape(st, item_id) THEN st
    ELSE move_handles(st, item_id, CoordsOf(st, item_id), 1)

\* handle_select_click, lines 999-1005, for an item in the layer at la.
select_in_layer(st, it, add, la) ==
    IF la # NoAddr /\ ~st.heap[la].locked
    THEN [st EXCEPT !.selected_items = IF add THEN @ \cup {it} ELSE {it}]
    ELSE [st EXCEPT !.selected_items = {}]

\* handle_select_click; it is what canvas.find_closest answers, NoItem for
\* nothing. (highlight_selection changes the width the canvas draws with and
\* nothing else.)
handle_select_click(st, it, add) ==
    IF it = NoItem THEN [st EXCEPT !.selected_items = {}]
    ELSE select_in_layer(st, it, add, find_layer_of_item(st, it))

\* coord + dx if i % 2 == 0 else coord + dy, line 1020.
Shifted(c, dx, dy) ==
    [i \in DOMAIN c |-> IF i % 2 = 1 THEN RAdd(c[i], dx) ELSE RAdd(c[i], dy)]

\* The except clause of line 1023 has caught what the try block raised.
caught(st) == [st EXCEPT !.exc = FALSE]

\* move_entire_shape, lines 1016-1025, for one selected item: what the try
\* block leaves when canvas.coords raises is the canvas item moved and the
\* record as it was.
move_item(st, item, dx, dy) ==
    IF ~HasShape(st, item) THEN canvas_move(st, item, dx, dy)
    ELSE caught(update_coords(
             canvas_set_coords(canvas_move(st, item, dx, dy), item,
                               Shifted(CoordsOf(st, item), dx, dy)),
             item, Shifted(CoordsOf(st, item), dx, dy)))

RECURSIVE move_items(_, _, _, _)
move_items(st, items, dx, dy) ==
    IF items = <<>> THEN st
    ELSE move_items(move_item(st, items[1], dx, dy), Tail(items), dx, dy)

\* move_entire_shape; before any pointer-down last_x is None and the
\* subtraction is a TypeError.
move_entire_shape(st, x, y) ==
    IF st.last_x = NoNum THEN Raise(st)
    ELSE [move_items(st, SortedSeq(st.selected_items),
                     RSub(x, st.last_x), RSub(y, st.last_y))
             EXCEPT !.last_x = x, !.last_y = y]

\* x >= bbox[0] and x <= bbox[2] and y >= bbox[1] and y <= bbox[3]
InBox(bbox, x, y) ==
    RLe(bbox[1], x) /\ RLe(x, bbox[3]) /\ RLe(bbox[2], y) /\ RLe(y, bbox[4])

\* handle_direct_select_down, lines 780-784: the first handle from the k-th
\* on whose box holds (x, y); <<>> for none, "IndexError" when the canvas no
\* longer holds a handle met on the way.
RECURSIVE handle_at(_, _, _, _)
handle_at(st, x, y, k) ==
    IF k > Len(st.direct_select_anchors) THEN <<>>
    ELSE IF Len(canvas_coords(st, st.direct_select_anchors[k][1])) < 4
    THEN <<"IndexError">>
    ELSE IF InBox(canvas_coords(st, st.direct_select_anchors[k][1]), x, y)
    THEN <<st.direct_select_anchors[k][2], st.direct_select_anchors[k][3]>>
    ELSE handle_at(st, x, y, k + 1)

\* handle_direct_select_down, lines 785-797, found what the loop has left.
direct_select(st, it, found) ==
    IF Len(found) = 1 THEN Raise(st)
    ELSE IF Len(found) = 2
    THEN [st EXCEPT !.direct_select_dragging_anchor = found,
                    !.direct_select_drag_index = found[2]]
    ELSE IF it # NoItem /\ HasShape(st, it) /\ HasAnchors(st, it)
    THEN [show_direct_select_anchors([st EXCEPT !.selected_items = {it}], it)
             EXCEPT !.direct_select_dragging_anchor = <<>>,
                    !.direct_select_drag_index = NoIndex]
    ELSE st

handle_direct_select_down(st, x, y, it) == direct_select(st, it, handle_at(st, x, y, 1))

\* The shape is drawn and stored with coords: canvas.coords(id, *coords), then
\* shape_data.update_coords(id, coords).
redraw(st, item_id, coords) ==
    update_coords(canvas_set_coords(st, item_id, coords), item_id, coords)

\* The list the record holds is changed in place to coords, the shape is
\* redrawn and the handles follow: lines 806-811, and lines 1111-1113.
reshape(st, item_id, coords) ==
    update_direct_select_anchors(
        redraw(list_set(st, ShapeOf(st, item_id).coords, coords), item_id, coords),
        item_id)

\* handle_direct_select_drag: the point at offset idx of the record's own list
\* is set in place, then the record gets a copy of the list.
handle_direct_select_drag(st, x, y) ==
    IF st.direct_select_dragging_anchor = <<>> THEN st
    ELSE IF ~HasShape(st, st.direct_select_dragging_anchor[1]) THEN st
    ELSE IF st.direct_select_dragging_anchor[2] + 1
               >= Len(CoordsOf(st, st.direct_select_dragging_anchor[1]))
    THEN Raise(st)
    ELSE reshape(st, st.direct_select_dragging_anchor[1],
                 [CoordsOf(st, st.direct_select_dragging_anchor[1])
                     EXCEPT ![st.direct_select_dragging_anchor[2] + 1] = x,
                            ![st.direct_select_dragging_anchor[2] + 2] = y])

\* ---------------------------------------------------- anchors and bends

\* list.index(x)
FirstIndex(s, x) == CHOOSE i \in DOMAIN s : s[i] = x /\ \A j \in 1..(i - 1) : s[j] # x

Least(s) == CHOOSE x \in Range(s) : \A y \in Range(s) : x <= y

\* sorted(list)
RECURSIVE SortInts(_)
SortInts(s) ==
    IF s = <<>> THEN <<>>
    ELSE <<Least(s)>> \o SortInts(RemoveAt(s, FirstIndex(s, Least(s))))

\* shape['anchors'] = sorted(anchors): the record is bound to a new list.
set_anchors(st, item_id, anchors) ==
    IF st.exc THEN st
    ELSE [New(st, [k |-> "list", v |-> SortInts(anchors)])
            EXCEPT !.heap[RecAddr(st, item_id)].anchors = Fresh(st)]

\* max(0.0, min(1.0, t))
Clamp01(t) == IF RLt(t, Num(0)) THEN Num(0) ELSE IF RLt(Num(1), t) THEN Num(1) ELSE t

\* The click itself as the point that is inserted.
insert_at_click(mx, my, x1, y1, x2, y2, seg_len_sq) == <<mx, my>>

\* handle_add_anchor_click, lines 1130-1139: the point that is inserted. A
\* rational this model can hold is below 1e-10 only when it is 0.
insert_point(mx, my, x1, y1, x2, y2, seg_len_sq) ==
    IF seg_len_sq[1] = 0 THEN <<x1, y1>>
    ELSE <<Along(x1, x2, Clamp01(RDiv(RAdd(RMul(RSub(mx, x1), RSub(x2, x1)),
                                           RMul(RSub(my, y1), RSub(y2, y1))),
                                      seg_len_sq))),
           Along(y1, y2, Clamp01(RDiv(RAdd(RMul(RSub(mx, x1), RSub(x2, x1)),
                                           RMul(RSub(my, y1), RSub(y2, y1))),
                                      seg_len_sq)))>>

\* lines 1128-1139 on the segment from (x1, y1) to (x2, y2).
insert_on(mx, my, x1, y1, x2, y2) ==
    insert_point(mx, my, x1, y1, x2, y2, SqLen(RSub(x2, x1), RSub(y2, y1)))

\* line 1146, not reached after an exception.
select_only(st, iid) == IF st.exc THEN st ELSE [st EXCEPT !.selected_items = {iid}]

\* lines 1140-1148: coords and anchors change in place, anchors is then bound
\* to its sorted copy; anchors is the list with insert_idx appended.
place_anchor(st, iid, new_coords, anchors) ==
    CHOOSE after \in
        {push_history(show_direct_select_anchors(select_only(redrawn, iid), iid),
                      "Added anchor") :
           redrawn \in {redraw(set_anchors(list_set(list_set(st, ShapeOf(st, iid).coords,
                                                             new_coords),
                                                    ShapeOf(st, iid).anchors, anchors),
                                           iid, anchors),
                               iid, new_coords)}} : TRUE

\* lines 1140-1143 for the point p.
insert_anchor(st, iid, insert_idx, p) ==
    CHOOSE after \in
        {place_anchor(st, iid, new_coords, Append(AnchorsOf(st, iid), insert_idx)) :
           new_coords \in {InsertAt(InsertAt(CoordsOf(st, iid), insert_idx + 1, p[2]),
                                    insert_idx + 1, p[1])}} : TRUE

\* lines 1126-1148, seg_i what find_closest_segment_index has answered.
add_anchor_on(st, mx, my, iid, coords, seg_i) ==
    IF seg_i = NoIndex THEN st
    ELSE IF seg_i = IndexError THEN Raise(st)
    ELSE CHOOSE after \in
             {insert_anchor(st, iid, seg_i + 2, p) :
                p \in {insert_on(mx, my, coords[seg_i + 1], coords[seg_i + 2],
                                 coords[seg_i + 3], coords[seg_i + 4])}} : TRUE

\* The click taking a text for a chain as well.
handle_add_anchor_click_on_text(st, mx, my, it) ==
    IF it = NoItem \/ ~HasShape(st, it) THEN st
    ELSE IF ShapeOf(st, it).type \notin LineTypes \cup {"editable_text"} THEN st
    ELSE add_anchor_on(st, mx, my, it, CoordsOf(st, it),
                       find_closest_segment_index(mx, my, CoordsOf(st, it)))

handle_add_anchor_click(st, mx, my, it) ==
    IF it = NoItem \/ ~HasShape(st, it) THEN st
    ELSE IF ShapeOf(st, it).type \notin LineTypes THEN st
    ELSE CHOOSE after \in
             {add_anchor_on(st, mx, my, it, CoordsOf(st, it), seg_i) :
                seg_i \in {find_closest_segment_index(mx, my, CoordsOf(st, it))}} : TRUE

\* on_key_toggle_anchor, lines 1080-1083.
Toggled(anchors, idx) ==
    IF idx \in Range(anchors) THEN RemoveAt(anchors, FirstIndex(anchors, idx))
    ELSE Append(anchors, idx)

\* lines 1078-1085 for one shape: without the key anchors is a new list, with
\* it the record's list changes in place; the record is then bound to the
\* sorted copy.
toggle_anchor(st, sid, idx) ==
    IF ~HasAnchors(st, sid)
    THEN update_direct_select_anchors(
             [New(st, [k |-> "list", v |-> <<idx>>])
                 EXCEPT !.heap[RecAddr(st, sid)].anchors = Fresh(st)], sid)
    ELSE update_direct_select_anchors(
             set_anchors(list_set(st, ShapeOf(st, sid).anchors,
                                  Toggled(AnchorsOf(st, sid), idx)),
                         sid, Toggled(AnchorsOf(st, sid), idx)), sid)

\* on_key_toggle_anchor, lines 1074-1085, for the selected shapes from the
\* k-th of sids on.
RECURSIVE toggle_anchor_of(_, _, _)
toggle_anchor_of(st, sids, k) ==
    IF k > Len(sids) \/ st.exc THEN st
    ELSE IF ~HasShape(st, sids[k]) \/ st.direct_select_drag_index = NoIndex
    THEN toggle_anchor_of(st, sids, k + 1)
    ELSE toggle_anchor_of(toggle_anchor(st, sids[k], st.direct_select_drag_index),
                          sids, k + 1)

on_key_toggle_anchor(st) ==
    IF st.current_tool = "Direct Select" /\ st.selected_items # {}
    THEN push_history(toggle_anchor_of(st, SortedSeq(st.selected_items), 1),
                      "Toggled anchor status")
    ELSE st

\* apply_anchor_interpolation, lines 1095-1110: the stretches between
\* neighbouring anchors, from the a-th anchor on, each spread evenly; ok is
\* FALSE when an anchor is an offset past the end of coords (IndexError).
RECURSIVE interpolate_from(_, _, _)
interpolate_from(coords, anchors, a) ==
    IF a >= Len(anchors) THEN [coords |-> coords, ok |-> TRUE]
    ELSE IF anchors[a] + 1 >= Len(coords) \/ anchors[a + 1] + 1 >= Len(coords)
    THEN [coords |-> coords, ok |-> FALSE]
    ELSE interpolate_from(
             IF anchors[a + 1] - anchors[a] >= 4
             THEN local_anchor_interpolation(coords, anchors[a], anchors[a + 1])
             ELSE coords,
             anchors, a + 1)

\* lines 1095-1113, r what the loop has left: the record's list has changed
\* in place when the IndexError comes.
interpolated(st, shape_id, r) ==
    IF r.ok THEN reshape(st, shape_id, r.coords)
    ELSE Raise(list_set(st, ShapeOf(st, shape_id).coords, r.coords))

apply_anchor_interpolation(st, shape_id) ==
    IF st.exc \/ ~HasShape(st, shape_id) THEN st
    ELSE IF ~HasAnchors(st, shape_id) THEN st
    ELSE IF Len(AnchorsOf(st, shape_id)) < 2 THEN st
    ELSE interpolated(st, shape_id,
             interpolate_from(CoordsOf(st, shape_id), SortInts(AnchorsOf(st, shape_id)), 1))

\* handle_bend_tool_down, lines 1241-1245: a chain of one point gets the
\* midpoint of its ends as a second point.
WithMidpoint(c) ==
    <<c[1], c[2], RDiv(RAdd(c[1], c[Len(c) - 1]), Num(2)),
      RDiv(RAdd(c[2], c[Len(c)]), Num(2))>> \o SubSeq(c, 3, Len(c))

\* lines 1243-1247: the list changes in place, the shape is redrawn.
insert_midpoint(st, it, coords) ==
    redraw(list_set(st, ShapeOf(st, it).coords, coords), it, coords)

\* lines 1248-1258: aidx is what find_nearby_anchor answers and seg what
\* find_closest_segment_index answers, each an IndexError when the call
\* raises it.
grab(st, x, y, aidx, seg) ==
    IF (st.bendA_active \/ st.bendB_active) /\ aidx = IndexError THEN Raise(st)
    ELSE IF st.bendA_active /\ aidx = NoIndex /\ seg = IndexError THEN Raise(st)
    ELSE [st EXCEPT
            !.bendA_dragging_anchor_idx = IF st.bendA_active /\ aidx # NoIndex THEN aidx ELSE @,
            !.bendA_segment_idx = IF st.bendA_active /\ aidx = NoIndex THEN seg ELSE @,
            !.bendB_dragging_anchor_idx = IF st.bendB_active /\ aidx # NoIndex THEN aidx ELSE @,
            !.last_x = x, !.last_y = y]

grab_shape(st, x, y, it) ==
    IF st.exc THEN st
    ELSE grab(st, x, y, find_nearby_anchor(st, it, x, y, Num(6)),
              find_closest_segment_index(x, y, CoordsOf(st, it)))

\* lines 1237-1258, for a chain.
bend_target_down(st, x, y, it) ==
    IF Len(CoordsOf(st, it)) < 2 THEN Raise(st)
    ELSE grab_shape(IF Len(CoordsOf(st, it)) < 4
                    THEN insert_midpoint(st, it, WithMidpoint(CoordsOf(st, it)))
                    ELSE st,
                    x, y, it)

\* handle_bend_tool_down
handle_bend_tool_down(st, x, y, it) ==
    IF it = NoItem \/ ~HasShape(st, it) THEN [st EXCEPT !.selected_items = {}]
    ELSE IF ShapeOf(st, it).type \notin LineTypes THEN [st EXCEPT !.selected_items = {}]
    ELSE bend_target_down([st EXCEPT !.selected_items = {it}, !.bend_dragging = TRUE,
                                     !.bend_target = it], x, y, it)

\* bend_tool_a_anchor_drag (arc FALSE) and bend_tool_b_anchor_drag (arc TRUE),
\* lines 1290-1294: the stretch from start_idx to end_idx is interpolated.
interpolate_between(coords, start_idx, end_idx, arc) ==
    IF arc THEN arc_anchor_interpolation(coords, start_idx, end_idx)
    ELSE local_anchor_interpolation(coords, start_idx, end_idx)

toward_prev(coords, sorted_anchors, cur_pos, idx, arc) ==
    IF cur_pos > 1
    THEN interpolate_between(coords, sorted_anchors[cur_pos - 1], idx, arc)
    ELSE coords

toward_next(coords, sorted_anchors, cur_pos, idx, arc) ==
    IF cur_pos < Len(sorted_anchors)
    THEN interpolate_between(coords, idx, sorted_anchors[cur_pos + 1], arc)
    ELSE coords

\* lines 1287-1294, cur_pos the place of idx among the sorted anchors.
drag_at(coords, sorted_anchors, cur_pos, idx, arc) ==
    toward_next(toward_prev(coords, sorted_anchors, cur_pos, idx, arc),
                sorted_anchors, cur_pos, idx, arc)

drag_among(coords, sorted_anchors, idx, arc) ==
    drag_at(coords, sorted_anchors, FirstIndex(sorted_anchors, idx), idx, arc)

\* bend_tool_a_anchor_drag and bend_tool_b_anchor_drag on the list coords: the
\* list after the call, <<>> for an IndexError at coords[idx + 1] or a
\* ValueError at sorted_anchors.index(idx).
anchor_drag(coords, anchors, idx, mx, my, arc) ==
    IF idx + 1 >= Len(coords) \/ idx \notin Range(anchors) THEN <<>>
    ELSE drag_among([coords EXCEPT ![idx + 1] = mx, ![idx + 2] = my],
                    SortInts(anchors), idx, arc)

\* bend_tool_a_push and bend_tool_b_push read coords[i + 1]: an IndexError on
\* a list of odd length, <<>> here.
push_points(coords, last_x, last_y, mx, my, radius) ==
    IF Len(coords) % 2 = 1 THEN <<>>
    ELSE radial_push(coords, last_x, last_y, mx, my, radius)

\* handle_bend_tool_drag, lines 1267-1276: the list coords after the call of
\* the bend, <<>> when the call raises.
bent(st, coords, anchors, x, y) ==
    IF st.bendA_active
    THEN IF st.bendA_dragging_anchor_idx # NoIndex
         THEN anchor_drag(coords, anchors, st.bendA_dragging_anchor_idx, x, y, FALSE)
         ELSE push_points(coords, st.last_x, st.last_y, x, y, Num(BEND_RADIUS_A))
    ELSE IF st.bendB_active
    THEN IF st.bendB_dragging_anchor_idx # NoIndex
         THEN anchor_drag(coords, anchors, st.bendB_dragging_anchor_idx, x, y, TRUE)
         ELSE push_points(coords, st.last_x, st.last_y, x, y, Num(BEND_RADIUS_B))
    ELSE coords

\* line 1279, not reached after an exception.
set_last(st, x, y) == IF st.exc THEN st ELSE [st EXCEPT !.last_x = x, !.last_y = y]

\* The anchor a bend tool drags.
DraggedAnchor(st) ==
    IF st.bendA_active THEN st.bendA_dragging_anchor_idx ELSE st.bendB_dragging_anchor_idx

\* lines 1267-1279, new_coords what the bend has made of the list coords.
bend_to(st, x, y, coords, new_coords) ==
    IF new_coords = <<>> /\ coords # <<>>
    THEN \* the ValueError comes after the point has been set in place
         IF DraggedAnchor(st) # NoIndex /\ DraggedAnchor(st) + 1 < Len(coords)
         THEN Raise(list_set(st, ShapeOf(st, st.bend_target).coords,
                             [coords EXCEPT ![DraggedAnchor(st) + 1] = x,
                                            ![DraggedAnchor(st) + 2] = y]))
         ELSE Raise(st)
    ELSE set_last(redraw(list_set(st, ShapeOf(st, st.bend_target).coords, new_coords),
                         st.bend_target, new_coords), x, y)

\* handle_bend_tool_drag
handle_bend_tool_drag(st, x, y) ==
    IF ~st.bend_dragging \/ st.bend_target = NoItem THEN st
    ELSE IF ~HasShape(st, st.bend_target) THEN st
    ELSE bend_to(st, x, y, CoordsOf(st, st.bend_target),
                 bent(st, CoordsOf(st, st.bend_target),
                      IF HasAnchors(st, st.bend_target)
                      THEN AnchorsOf(st, st.bend_target) ELSE <<>>, x, y))

\* ------------------------------------------------------ drawing tools

\* The layer the pointer handlers work on: self.layers[current_layer_index].
CurrentLayer(st) == Layers(st)[st.current_layer_index + 1]

\* handle_draw_bending_line_down, lines 872-876, for the item id the canvas
\* has created: the record, at Fresh(st), gets the anchor 0.
bending_stored(st, id, x, y) ==
    [store(add_item(st, CurrentLayer(st), id, "bending_line"), id, "bending_line",
           <<x, y>>, NoColor, st.stroke_color, st.brush_size)
        EXCEPT !.heap[Fresh(st) + 2].v = <<0>>, !.last_x = x, !.last_y = y]

\* handle_draw_bending_line_down
handle_draw_bending_line_down(st, x, y) ==
    IF st.current_layer_index = NoIndex
    THEN [canvas_create(st, "line", <<x, y, x, y>>) EXCEPT !.temp_item = st.next_id]
    ELSE bending_stored(
             [canvas_create(st, "line", <<x, y, x, y>>) EXCEPT !.temp_item = st.next_id],
             st.next_id, x, y)

\* handle_draw_bending_line_drag, lines 884-889: shapes[temp_item]['anchors']
\* is a KeyError for an item the store does not hold and for a record without
\* anchors; the offset idx of the new point joins the anchors, in place.
mark_anchor(st, x, y, idx) ==
    IF st.exc THEN st
    ELSE IF ~HasShape(st, st.temp_item) THEN Raise(st)
    ELSE IF ~HasAnchors(st, st.temp_item) THEN Raise(st)
    ELSE IF idx \in Range(AnchorsOf(st, st.temp_item))
    THEN [st EXCEPT !.last_x = x, !.last_y = y]
    ELSE [st EXCEPT !.heap[ShapeOf(st, st.temp_item).anchors].v = SortInts(Append(@, idx)),
                    !.last_x = x, !.last_y = y]

\* handle_draw_bending_line_drag, lines 882-889, coords the canvas item's
\* coordinates with the new point.
extend_line(st, x, y, coords) ==
    mark_anchor(redraw(st, st.temp_item, coords), x, y, Len(coords) - 2)

\* A drag that commits the point it has added.
handle_draw_bending_line_drag_committing(st, x, y) ==
    IF st.temp_item = NoItem THEN st
    ELSE push_history(extend_line(st, x, y, canvas_coords(st, st.temp_item) \o <<x, y>>),
                      "Drew bending line")

\* handle_draw_bending_line_drag
handle_draw_bending_line_drag(st, x, y) ==
    IF st.temp_item = NoItem THEN st
    ELSE extend_line(st, x, y, canvas_coords(st, st.temp_item) \o <<x, y>>)

\* handle_draw_bending_line_up, line 895, not reached after an exception.
clear_temp(st) == IF st.exc THEN st ELSE [st EXCEPT !.temp_item = NoItem]

\* handle_draw_bending_line_up
handle_draw_bending_line_up(st) ==
    IF st.temp_item = NoItem THEN st
    ELSE clear_temp(push_history(st, "Drew bending line"))

\* create_brush_segment, lines 903-907, and on_left_drag, lines 708-712, for
\* the line ln the canvas has created with the coordinates c.
brush_stored(st, ln, la, c) ==
    [store(add_item(st, la, ln, "brush"), ln, "brush", c, NoColor,
           st.stroke_color, st.brush_size)
        EXCEPT !.selected_items = {ln}]

\* A segment of the brush with the coordinates c, in the Layer at la.
brush_line(st, la, c) == brush_stored(canvas_create(st, "line", c), st.next_id, la, c)

\* create_brush_segment
create_brush_segment(st, x, y, la) ==
    brush_line(st, la, <<x, y, RAdd(x, Num(1)), RAdd(y, Num(1))>>)

\* on_left_drag, lines 701-713: the Brush; last_x is None, and the
\* subtraction a TypeError, until a pointer-down has gone through.
brush_drag(st, x, y, la) ==
    IF st.last_x = NoNum THEN Raise(st)
    ELSE IF RLt(Num(1), RAbs(RSub(x, st.last_x))) \/ RLt(Num(1), RAbs(RSub(y, st.last_y)))
    THEN [brush_line(st, la, <<st.last_x, st.last_y, x, y>>)
             EXCEPT !.last_x = x, !.last_y = y]
    ELSE st

\* normalize_rect
normalize_rect(c) ==
    <<IF RLe(c[1], c[3]) THEN c[1] ELSE c[3], IF RLe(c[2], c[4]) THEN c[2] ELSE c[4],
      IF RLe(c[1], c[3]) THEN c[3] ELSE c[1], IF RLe(c[2], c[4]) THEN c[4] ELSE c[2]>>

\* The canvas item the rubber band of a tool is.
BandKind(tool) ==
    CASE tool = "Line" -> "line"
      [] tool = "Rectangle" -> "rectangle"
      [] OTHER -> "oval"

\* on_left_drag: the new rubber band is the temp_item.
band(st, kind, c) == [canvas_create(st, kind, c) EXCEPT !.temp_item = st.next_id]

\* on_left_drag, lines 714-736: the rubber band of Line, Rectangle, Ellipse;
\* start_x is None (a TclError in the create call) until a pointer-down has
\* gone through.
rubber_band(st, x, y) ==
    IF st.start_x = NoNum THEN Raise(st)
    ELSE band(IF st.temp_item # NoItem THEN canvas_delete(st, st.temp_item) ELSE st,
              BandKind(st.current_tool),
              IF st.current_tool = "Line" THEN <<st.start_x, st.start_y, x, y>>
              ELSE normalize_rect(<<st.start_x, st.start_y, x, y>>))

\* The name of the tool in lower case: str.lower().
Lower(tool) ==
    CASE tool = "Line" -> "line"
      [] tool = "Rectangle" -> "rectangle"
      [] tool = "Ellipse" -> "ellipse"
      [] OTHER -> tool

\* finalize_shape_creation, lines 912-918.
shape_stored(st, stype, coords) ==
    [store(add_item(st, CurrentLayer(st), st.temp_item, stype), st.temp_item, stype, coords,
           IF stype = "line" THEN NoColor ELSE st.fill_color, st.stroke_color, st.brush_size)
        EXCEPT !.selected_items = {st.temp_item}, !.temp_item = NoItem]

\* finalize_shape_creation; layers[current_layer_index] is a TypeError for
\* None and an IndexError past the end of layers.
finalize_shape_creation(st) ==
    IF st.current_layer_index = NoIndex \/ st.current_layer_index >= Len(Layers(st))
    THEN Raise(st)
    ELSE shape_stored(st, Lower(st.current_tool), canvas_coords(st, st.temp_item))

\* The colour of the text the dialog of create_editable_text answers with.
TextFill == <<0, 0, 0>>

\* create_editable_text, lines 610-611.
text_listed(st, item) ==
    IF st.current_layer_index # NoIndex
    THEN add_item(st, CurrentLayer(st), item, "editable_text")
    ELSE st

\* create_editable_text, lines 602-613; the record is at Fresh(st).
text_stored(st, x, y) ==
    [text_listed(
         [store(canvas_create(st, "text", <<x, y>>), st.next_id, "editable_text",
                <<x, y, RAdd(x, Num(100)), RAdd(y, Num(30))>>, NoColor, TextFill, 1)
             EXCEPT !.heap[Fresh(st)].text_props = "props"],
         st.next_id)
        EXCEPT !.selected_items = {st.next_id}]

\* create_editable_text; ok is whether the dialog was closed with OK.
create_editable_text(st, x, y, ok) ==
    IF ~ok THEN st ELSE push_history(text_stored(st, x, y), "Created editable text")

\* -------------------------------------------------------------- erasers

\* The points of coords more than radius away from (ex, ey), in their order.
kept_points_beyond(coords, ex, ey, radius) ==
    LET far(j) == LET p == IF j % 2 = 1 THEN j ELSE j - 1
                  IN  RLt(RSq(radius), SqLen(RSub(coords[p], ex), RSub(coords[p + 1], ey)))
        keep == {j \in DOMAIN coords : far(j)}
    IN  [k \in 1..Cardinality(keep) |->
            coords[CHOOSE j \in keep : Cardinality({i \in keep : i <= j}) = k]]

\* round_erase_anchor_points, lines 929-931: the points of coords at least
\* radius away from (ex, ey), in their order.
kept_points(coords, ex, ey, radius) ==
    LET far(j) == LET p == IF j % 2 = 1 THEN j ELSE j - 1
                  IN  ~HypotLt(RSub(coords[p], ex), RSub(coords[p + 1], ey), radius)
        keep == {j \in DOMAIN coords : far(j)}
    IN  [k \in 1..Cardinality(keep) |->
            coords[CHOOSE j \in keep : Cardinality({i \in keep : i <= j}) = k]]

\* round_erase_anchor_points, lines 932-936.
erase_or_redraw(st, item_id, new_coords) ==
    IF Len(new_coords) < 4 THEN erase_item(st, item_id)
    ELSE redraw(st, item_id, new_coords)

\* round_erase_anchor_points; coords of odd length end the loop with an
\* IndexError.
round_erase_anchor_points(st, item_id, ex, ey, radius) ==
    IF ~HasShape(st, item_id) THEN st
    ELSE IF ShapeOf(st, item_id).type \notin LineTypes THEN st
    ELSE IF Len(CoordsOf(st, item_id)) % 2 = 1 THEN Raise(st)
    ELSE erase_or_redraw(st, item_id, kept_points(CoordsOf(st, item_id), ex, ey, radius))

\* fade_color: a colour #rrggbb, here its three numbers, goes one step
\* towards white; None and a colour that is not seven characters stay.
fade_channel(c) ==
    IF Abs(255 - c) < SOFT_ERASER_FADE_STEP THEN 255
    ELSE IF 255 - c > 0 THEN c + SOFT_ERASER_FADE_STEP ELSE c - SOFT_ERASER_FADE_STEP

fade_color(hc) ==
    IF Len(hc) # 3 THEN hc ELSE <<fade_channel(hc[1]), fade_channel(hc[2]), fade_channel(hc[3])>>

\* soft_erase_shape, lines 958-959.
config_outline(st, item_id, new_outline) ==
    IF new_outline # NoColor THEN canvas_itemconfig(st, item_id, "outline") ELSE st

\* soft_erase_shape, lines 960-961, not reached after an exception.
config_fill(st, item_id, new_fill) ==
    IF st.exc \/ new_fill = NoColor THEN st ELSE canvas_itemconfig(st, item_id, "fill")

\* soft_erase_shape, lines 954-961: the record's colours change in place, then
\* the canvas item's.
faded(st, item_id, new_outline, new_fill) ==
    config_fill(
        config_outline([st EXCEPT !.heap[RecAddr(st, item_id)].outline = new_outline,
                                  !.heap[RecAddr(st, item_id)].fill = new_fill],
                       item_id, new_outline),
        item_id, new_fill)

\* soft_erase_shape
soft_erase_shape(st, item_id) ==
    IF ~HasShape(st, item_id) THEN st
    ELSE faded(st, item_id, fade_color(ShapeOf(st, item_id).outline),
               fade_color(ShapeOf(st, item_id).fill))

\* on_left_down, lines 655-675, up to the push: what the eraser does to the
\* item it find_closest has answered.
erased(st, x, y, it) ==
    CASE st.current_tool = "Sharp Eraser" ->
            IF HasShape(st, it) /\ ShapeOf(st, it).type \in LineTypes
            THEN round_erase_anchor_points(st, it, x, y, Rat(ERASER_RADIUS, 2))
            ELSE st
      [] st.current_tool = "Round Eraser" ->
            IF HasShape(st, it) /\ ShapeOf(st, it).type \in LineTypes
            THEN round_erase_anchor_points(st, it, x, y, Num(ERASER_RADIUS))
            ELSE st
      [] OTHER -> IF HasShape(st, it) THEN soft_erase_shape(st, it) ELSE st

\* on_left_down, lines 655-675: the three erasers on what find_closest answers.
eraser_down(st, x, y, it) ==
    IF it = NoItem THEN st
    ELSE push_history(erased(st, x, y, it), st.current_tool \o " used")

\* ------------------------------------------------------ pointer events

Erasers == {"Sharp Eraser", "Round Eraser", "Soft Eraser"}

\* on_left_down, lines 636-676: the branch of the current tool. shift is the
\* Shift key, it what find_closest answers, ok the text dialog's outcome.
tool_down(st, x, y, shift, it, ok) ==
    CASE st.current_tool = "Select" -> handle_select_click(st, it, shift)
      [] st.current_tool = "Direct Select" -> handle_direct_select_down(st, x, y, it)
      [] st.current_tool = "Add Anchor" -> handle_add_anchor_click(st, x, y, it)
      [] st.current_tool \in {"Bend Tool A", "Bend Tool B"} -> handle_bend_tool_down(st, x, y, it)
      [] st.current_tool = "Bend Tool C" -> handle_draw_bending_line_down(st, x, y)
      [] st.current_tool = "Brush" -> create_brush_segment(st, x, y, CurrentLayer(st))
      [] st.current_tool \in {"Line", "Rectangle", "Ellipse"} -> [st EXCEPT !.temp_item = NoItem]
      [] st.current_tool = "Text" -> create_editable_text(st, x, y, ok)
      [] st.current_tool \in Erasers -> eraser_down(st, x, y, it)
      [] OTHER -> st

\* on_left_down, lines 677-679: the selection rectangle of a Select press
\* that has found no item.
select_rect(st, x, y, it) ==
    IF st.exc THEN st
    ELSE IF st.current_tool = "Select" /\ it = NoItem
    THEN [canvas_create(st, "rectangle", <<x, y, x, y>>) EXCEPT !.select_rect_id = st.next_id]
    ELSE st

\* on_left_down, lines 634-679.
down_on_layer(st, x, y, shift, it, ok) ==
    IF st.current_layer_index = NoIndex THEN st
    ELSE IF st.current_layer_index >= Len(Layers(st)) THEN Raise(st)
    ELSE IF st.heap[CurrentLayer(st)].locked \/ ~st.heap[CurrentLayer(st)].visible THEN st
    ELSE select_rect(
             tool_down([st EXCEPT !.start_x = x, !.start_y = y, !.last_x = x, !.last_y = y],
                       x, y, shift, it, ok),
             x, y, it)

\* on_left_down
on_left_down(st, x, y, shift, it, ok) ==
    down_on_layer(IF st.current_layer_index = NoIndex /\ Layers(st) # <<>>
                  THEN [st EXCEPT !.current_layer_index = 0]
                  ELSE st,
                  x, y, shift, it, ok)

\* on_left_drag
on_left_drag(st, x, y) ==
    IF st.current_layer_index = NoIndex THEN st
    ELSE IF st.current_layer_index >= Len(Layers(st)) THEN Raise(st)
    ELSE IF st.heap[CurrentLayer(st)].locked \/ ~st.heap[CurrentLayer(st)].visible THEN st
    ELSE CASE st.current_tool = "Select" ->
                IF st.select_rect_id # NoItem
                THEN canvas_set_coords(st, st.select_rect_id, <<st.start_x, st.start_y, x, y>>)
                ELSE IF Cardinality(st.selected_items) = 1 THEN move_entire_shape(st, x, y)
                ELSE st
           [] st.current_tool = "Direct Select" /\ st.direct_select_dragging_anchor # <<>> ->
                handle_direct_select_drag(st, x, y)
           [] st.current_tool \in {"Bend Tool A", "Bend Tool B"} /\ st.bend_dragging ->
                handle_bend_tool_drag(st, x, y)
           [] st.current_tool = "Bend Tool C" -> handle_draw_bending_line_drag(st, x, y)
           [] st.current_tool = "Brush" -> brush_drag(st, x, y, CurrentLayer(st))
           [] st.current_tool \in {"Line", "Rectangle", "Ellipse"} -> rubber_band(st, x, y)
           [] OTHER -> st

\* on_left_up, lines 755-758, for the shape sid of selected_items.
interpolate_one(st, sid) ==
    IF HasShape(st, sid) /\ HasAnchors(st, sid) /\ Len(AnchorsOf(st, sid)) >= 2
    THEN apply_anchor_interpolation(st, sid)
    ELSE st

\* on_left_up, lines 753-758: the Direct Select release, the shapes of
\* selected_items from the k-th of sids on.
RECURSIVE interpolate_selected(_, _, _)
interpolate_selected(st, sids, k) ==
    IF k > Len(sids) \/ st.exc THEN st
    ELSE interpolate_selected(interpolate_one(st, sids[k]), sids, k + 1)

\* canvas.find_enclosed(x1, y1, x2, y2): the items that lie inside the box,
\* by their coordinates.
find_enclosed(st, box) ==
    {id \in DOMAIN st.canvas :
        /\ ~st.canvas[id].hidden
        /\ \A j \in DOMAIN st.canvas[id].coords :
              IF j % 2 = 1
              THEN RLt(box[1], st.canvas[id].coords[j]) /\ RLt(st.canvas[id].coords[j], box[3])
              ELSE RLt(box[2], st.canvas[id].coords[j]) /\ RLt(st.canvas[id].coords[j], box[4])}

\* on_left_up, lines 741-748: the release of the selection rectangle, box its
\* coordinates (unpacking anything but four of them is a ValueError).
multi_select(st, box) ==
    IF Len(box) # 4 THEN Raise(st)
    ELSE push_history([canvas_delete(st, st.select_rect_id)
                          EXCEPT !.selected_items = @ \cup find_enclosed(st, box),
                                 !.select_rect_id = NoItem],
                      "Multi-selected items")

\* on_left_up, lines 766-774: what follows the branches that do not return.
up_finalize(st) ==
    IF st.temp_item # NoItem /\ st.current_tool \in {"Line", "Rectangle", "Ellipse"}
    THEN push_history(finalize_shape_creation(st), "Created " \o st.current_tool)
    ELSE st

\* on_left_up, lines 751-759.
direct_select_up(st) ==
    push_history(
        interpolate_selected([st EXCEPT !.direct_select_dragging_anchor = <<>>,
                                        !.direct_select_drag_index = NoIndex],
                             SortedSeq(st.selected_items), 1),
        "DirectSelect anchor move")

\* on_left_up
on_left_up(st, x, y) ==
    IF st.current_tool = "Select" /\ st.select_rect_id # NoItem
    THEN multi_select(st, canvas_coords(st, st.select_rect_id))
    ELSE IF st.current_tool = "Select" /\ Cardinality(st.selected_items) = 1
    THEN push_history(st, "Moved shape")
    ELSE IF st.current_tool = "Direct Select" /\ st.direct_select_dragging_anchor # <<>>
    THEN direct_select_up(st)
    ELSE IF st.current_tool \in {"Bend Tool A", "Bend Tool B"} /\ st.bend_dragging
    THEN push_history([st EXCEPT !.bend_dragging = FALSE, !.bend_target = NoItem,
                                 !.bendA_dragging_anchor_idx = NoIndex,
                                 !.bendB_dragging_anchor_idx = NoIndex],
                      "Bent shape with " \o st.current_tool)
    ELSE IF st.current_tool = "Bend Tool C"
    THEN push_history(handle_draw_bending_line_up(st), "Created bending line")
    ELSE up_finalize(st)

\* ------------------------------------------------------- layer buttons

Swap(s, i, j) == [s EXCEPT ![i] = s[j], ![j] = s[i]]

\* move_layer_up (tag_raise changes the stacking on the canvas and nothing
\* the model keeps).
move_layer_up(st) ==
    IF st.layer_sel = NoIndex \/ st.layer_sel = 0 THEN st
    ELSE push_history(
             [st EXCEPT !.heap[LayersAddr].v = Swap(@, st.layer_sel + 1, st.layer_sel),
                        !.layer_listbox = Swap(@, st.layer_sel + 1, st.layer_sel),
                        !.layer_sel = @ - 1,
                        !.current_layer_index = st.layer_sel - 1],
             "Layer " \o st.layer_listbox[st.layer_sel + 1] \o " moved up")

\* move_layer_down
move_layer_down(st) ==
    IF st.layer_sel = NoIndex \/ st.layer_sel = Len(Layers(st)) - 1 THEN st
    ELSE push_history(
             [st EXCEPT !.heap[LayersAddr].v = Swap(@, st.layer_sel + 1, st.layer_sel + 2),
                        !.layer_listbox = Swap(@, st.layer_sel + 1, st.layer_sel + 2),
                        !.layer_sel = @ + 1,
                        !.current_layer_index = st.layer_sel + 1],
             "Layer " \o st.layer_listbox[st.layer_sel + 1] \o " moved down")

RECURSIVE delete_items(_, _)
delete_items(st, items) ==
    IF items = <<>> THEN st
    ELSE delete_items(remove(canvas_delete(st, items[1][1]), items[1][1]), Tail(items))

\* delete_layer, lines 425-429, for the layer at idx.
drop_layer(st, idx) ==
    [st EXCEPT !.heap[LayersAddr].v = RemoveAt(@, idx + 1),
               !.layer_listbox = RemoveAt(@, idx + 1),
               !.layer_sel = NoIndex,
               !.current_layer_index = IF Len(Layers(st)) = 1 THEN NoIndex ELSE 0,
               !.selected_items = {}]

\* delete_layer
delete_layer(st) ==
    IF st.layer_sel = NoIndex THEN st
    ELSE push_history(drop_layer(delete_items(st, LayerItems(st, st.layer_sel)), st.layer_sel),
                      "Deleted layer " \o LayerObj(st, st.layer_sel).name)

\* ------------------------------------------------------------- events

\* What the history refers to: each entry's dict and list, oldest entry first.
EntryRoots(st) ==
    [i \in 1..(2 * Len(st.states)) |->
        IF i % 2 = 1 THEN st.states[(i + 1) \div 2].shapes ELSE st.states[i \div 2].layers]

\* The objects the roots from the lo-th to the hi-th reach, after those of
\* done: each object once, in the order a walk from root after root meets it
\* (the roots are taken half by half, and the walk of the first half is a
\* value before the second starts, which keeps the evaluation shallow).
RECURSIVE walk_range(_, _, _, _, _)
walk_range(heap, roots, lo, hi, done) ==
    IF lo > hi THEN done
    ELSE IF lo = hi THEN Visit(heap, <<roots[lo]>>, done)
    ELSE CHOOSE w \in {walk_range(heap, roots, (lo + hi) \div 2 + 1, hi, d) :
                          d \in {walk_range(heap, roots, lo, (lo + hi) \div 2, done)}} : TRUE

\* The live dict and the live list, which keep their addresses, then what
\* they hold, then what the entries hold.
walk_roots(heap, roots) == walk_range(heap, roots, 1, Len(roots), <<ShapesAddr, LayersAddr>>)

Walk(st) ==
    walk_roots(st.heap,
               RefsSeq(st.heap[ShapesAddr]) \o RefsSeq(st.heap[LayersAddr]) \o EntryRoots(st))

\* The objects at the addresses order, in that order, are the heap; f is the
\* address each of them gets.
renumbered(st, order, f) ==
    [st EXCEPT
       !.heap = [n \in 1..Len(order) |-> Relocate(st.heap[order[n]], f)],
       !.states = [i \in 1..Len(st.states) |->
                     [st.states[i] EXCEPT !.shapes = f[@], !.layers = f[@]]]]

collected(st, order) == renumbered(st, order, [a \in Range(order) |-> IndexOf(order, a)])

\* Garbage collection. An object no reference reaches is gone, and the ones
\* that stay are numbered in the order of the walk: an address is a name for
\* an identity and nothing in the program reads its value, so two heaps that
\* differ only in the names are one state.
Collect(st) == collected(st, Walk(st))

\* A handler starts with no exception pending and ends with the garbage gone.
Begin == [ed EXCEPT !.exc = FALSE, !.pushes = 0]

Commit(r) == \E after \in {r} : ed' = Collect(after)

\* ret is the last direct call of a method of the history and what it
\* returned; NoCall after any other event.
NoCall == [of |-> "None", val |-> NoEntry]

GestureIdle == [active |-> FALSE, pushes |-> 0, changed |-> FALSE]

\* SimpleImageEditor.__init__, lines 235-236.
Constructed == Collect(push_history(add_layer(EditorNew, "Layer 1"), "Initial Setup"))

\* --------------------------------------------- the history, on its own
\* EditorHistory from its construction, driven by add_layer's commits, by
\* direct calls of undo, redo and go_to, and by the editor's do_undo, do_redo
\* and on_history_select.

MaxCommits == 4

HistAddLayer ==
    /\ nev < MaxCommits
    /\ Commit(add_layer(Begin, ""))
    /\ nev' = nev + 1
    /\ ret' = NoCall
    /\ UNCHANGED <<mouse_down, gesture>>

\* A direct call of a method of the history: r is what it answers, the state
\* after it and the entry returned.
Called(name, r) ==
    /\ Commit(r.st)
    /\ ret' = [of |-> name, val |-> r.ret]
    /\ UNCHANGED <<mouse_down, nev, gesture>>

HistUndo == Called("undo", undo(Begin))

HistRedo == Called("redo", redo(Begin))

HistGoToAt(idx) == Called("go_to", go_to(Begin, idx))

HistGoTo == \E idx \in -2..(Len(ed.states) + 1) : HistGoToAt(idx)

DoUndo ==
    /\ Commit(do_undo(Begin))
    /\ ret' = NoCall
    /\ UNCHANGED <<mouse_down, nev, gesture>>

DoRedo ==
    /\ Commit(do_redo(Begin))
    /\ ret' = NoCall
    /\ UNCHANGED <<mouse_down, nev, gesture>>

\* A click in the history list box; sel is the entry it selects, NoIndex when
\* the click leaves the selection empty.
OnHistorySelectAt(sel) ==
    /\ Commit(on_history_select(Begin, sel))
    /\ ret' = NoCall
    /\ UNCHANGED <<mouse_down, nev, gesture>>

OnHistorySelect == \E sel \in -1..(Len(ed.history_listbox) - 1) : OnHistorySelectAt(sel)

InitHist ==
    /\ ed = EditorNew
    /\ ret = NoCall
    /\ mouse_down = FALSE
    /\ nev = 0
    /\ gesture = GestureIdle

NextHist ==
    \/ HistAddLayer
    \/ HistUndo
    \/ HistRedo
    \/ HistGoTo
    \/ DoUndo
    \/ DoRedo
    \/ OnHistorySelect

SpecHist == InitHist /\ [][NextHist]_vars

\* ------------------------------------------ the history, at capacity
\* The editor after its construction, its user clicking only Hide/Show, Undo,
\* Redo, the layer list and the history list: commits without end.

\* A click on entry i of the layer list box.
OnLayerSelect ==
    \E i \in 0..(Len(ed.layer_listbox) - 1) :
        /\ Commit(on_layer_select([Begin EXCEPT !.layer_sel = i]))
        /\ ret' = NoCall
        /\ UNCHANGED <<mouse_down, nev, gesture>>

ToggleLayerVisibility ==
    /\ Commit(toggle_layer_visibility(Begin))
    /\ ret' = NoCall
    /\ UNCHANGED <<mouse_down, nev, gesture>>

\* A click on the oldest or on the newest entry of the history list box.
OnHistorySelectEnds ==
    \E sel \in {0, Len(ed.history_listbox) - 1} : OnHistorySelectAt(sel)

InitEvict ==
    /\ ed = Constructed
    /\ ret = NoCall
    /\ mouse_down = FALSE
    /\ nev = 0
    /\ gesture = GestureIdle

NextEvict ==
    \/ ToggleLayerVisibility
    \/ OnLayerSelect
    \/ DoUndo
    \/ DoRedo
    \/ OnHistorySelectEnds

SpecEvict == InitEvict /\ [][NextEvict]_vars

\* ------------------------------------------------------------ the editor
\* The editor with a document in it, its user choosing tools, pressing,
\* dragging and releasing the pointer on the canvas, pressing the keys and
\* clicking the buttons that are bound to a handler.

\* The events of one behaviour.
MaxEvents == 3

\* Where the pointer goes.
Pts == {<<10, 10>>, <<14, 10>>, <<100, 40>>}

Tools == {"Select", "Direct Select", "Add Anchor", "Bend Tool A", "Bend Tool B",
          "Bend Tool C", "Brush", "Line", "Rectangle", "Ellipse", "Text",
          "Sharp Eraser", "Round Eraser", "Soft Eraser"}

\* find_closest answering with the newest item the canvas shows.
Newest(st) ==
    IF Closest(st) = {NoItem} THEN NoItem
    ELSE CHOOSE x \in Closest(st) : \A y \in Closest(st) : y <= x

\* The pointer, held down, is dragged to the points of path from the i-th on.
RECURSIVE Dragged(_, _, _)
Dragged(st, path, i) ==
    IF i > Len(path) THEN st
    ELSE Dragged(on_left_drag(st, Num(path[i][1]), Num(path[i][2])), path, i + 1)

\* The pointer goes down at p on the editor st, whose tool has been chosen.
Pressed(st, p) == on_left_down(st, Num(p[1]), Num(p[2]), FALSE, Newest(st), TRUE)

\* A pointer gesture with the tool along the path, on the editor st: the tool
\* is chosen, the pointer goes down at the first point, is dragged to the
\* others and goes up at the last one.
Stroke(st, tool, path) ==
    CHOOSE after \in {on_left_up(d, Num(path[Len(path)][1]), Num(path[Len(path)][2])) :
                         d \in {Dragged(s, path, 2) :
                                   s \in {Pressed(select_tool(st, tool), path[1])}}} : TRUE

\* The gestures of a session from the i-th on, one after the other.
RECURSIVE Drawn(_, _, _)
Drawn(st, strokes, i) ==
    IF i > Len(strokes) THEN st
    ELSE CHOOSE after \in {Drawn(Collect(s), strokes, i + 1) :
                              s \in {Stroke(st, strokes[i].tool, strokes[i].path)}} : TRUE

\* The gestures of the sessions that have left the documents a behaviour
\* starts from.
DrawLine == [tool |-> "Line", path |-> <<<<10, 10>>, <<100, 40>>>>]
DrawBendingLine == [tool |-> "Bend Tool C", path |-> <<<<10, 10>>, <<14, 10>>, <<100, 40>>>>]
DrawRectangle == [tool |-> "Rectangle", path |-> <<<<10, 10>>, <<100, 40>>>>]
DrawLineToEnd == [tool |-> "Line", path |-> <<<<100, 10>>, <<100, 40>>>>]
ClickSelect == [tool |-> "Select", path |-> <<<<10, 10>>>>]
ClickDirectSelect == [tool |-> "Direct Select", path |-> <<<<14, 10>>>>]

\* The document the constructor leaves, and it with a line, with a bending
\* line of three points, with a rectangle, with a line that Select has
\* selected, with a bending line that shows its handles to Direct Select,
\* with two lines that end at the same point.
Sessions ==
    {<<>>, <<DrawLine>>, <<DrawBendingLine>>, <<DrawRectangle>>,
     <<DrawLine, ClickSelect>>, <<DrawBendingLine, ClickDirectSelect>>,
     <<DrawLine, DrawLineToEnd>>}

Documents == {Drawn(Constructed, s, 1) : s \in Sessions}

\* The pointer events change gesture: the events of the gesture so far have
\* called push_history pushes times, and changed says whether they changed
\* the coords or anchors of the Shape Store.
GeometryVal(st) ==
    [i \in DOMAIN ShapesDict(st) |->
        <<ShapesDict(st)[i].id,
          st.heap[st.heap[ShapesDict(st)[i].rec].coords].v,
          IF st.heap[ShapesDict(st)[i].rec].anchors # NoAddr
          THEN st.heap[st.heap[ShapesDict(st)[i].rec].anchors].v
          ELSE <<>>>>]

SelectTool ==
    \E tool \in Tools :
        /\ ~mouse_down
        /\ nev < MaxEvents
        /\ Commit(select_tool(Begin, tool))
        /\ nev' = nev + 1
        /\ gesture' = GestureIdle
        /\ UNCHANGED <<ret, mouse_down>>

OnLeftDownAt(p, shift, it, ok) ==
    /\ ~mouse_down
    /\ nev < MaxEvents
    /\ Commit(on_left_down(Begin, Num(p[1]), Num(p[2]), shift, it, ok))
    /\ nev' = nev + 1
    /\ mouse_down' = TRUE
    /\ gesture' = [active |-> TRUE, pushes |-> ed'.pushes,
                   changed |-> GeometryVal(ed') # GeometryVal(ed)]
    /\ UNCHANGED ret

OnLeftDown ==
    \E p \in Pts, it \in Closest(ed),
       shift \in IF ed.current_tool = "Select" THEN BOOLEAN ELSE {FALSE},
       ok \in IF ed.current_tool = "Text" THEN BOOLEAN ELSE {TRUE} :
        OnLeftDownAt(p, shift, it, ok)

OnLeftDragAt(p) ==
    /\ mouse_down
    /\ nev < MaxEvents
    /\ Commit(on_left_drag(Begin, Num(p[1]), Num(p[2])))
    /\ nev' = nev + 1
    /\ gesture' = [active |-> TRUE, pushes |-> gesture.pushes + ed'.pushes,
                   changed |-> gesture.changed \/ GeometryVal(ed') # GeometryVal(ed)]
    /\ UNCHANGED <<ret, mouse_down>>

OnLeftDrag == \E p \in Pts : OnLeftDragAt(p)

OnLeftUpAt(p) ==
    /\ mouse_down
    /\ nev < MaxEvents
    /\ Commit(on_left_up(Begin, Num(p[1]), Num(p[2])))
    /\ nev' = nev + 1
    /\ mouse_down' = FALSE
    /\ gesture' = [active |-> FALSE, pushes |-> gesture.pushes + ed'.pushes,
                   changed |-> gesture.changed \/ GeometryVal(ed') # GeometryVal(ed)]
    /\ UNCHANGED ret

OnLeftUp == \E p \in Pts : OnLeftUpAt(p)

\* The keys: Control-z, Control-y and a.
Key(after) ==
    /\ nev < MaxEvents
    /\ Commit(after)
    /\ nev' = nev + 1
    /\ UNCHANGED <<ret, mouse_down, gesture>>

OnCtrlZ == Key(do_undo(Begin))

OnCtrlY == Key(do_redo(Begin))

OnKeyToggleAnchor == Key(on_key_toggle_anchor(Begin))

\* The buttons and list boxes beside the canvas.
Click(after) ==
    /\ ~mouse_down
    /\ nev < MaxEvents
    /\ Commit(after)
    /\ nev' = nev + 1
    /\ gesture' = GestureIdle
    /\ UNCHANGED <<ret, mouse_down>>

ClickHistory == \E sel \in 0..(Len(ed.history_listbox) - 1) : Click(on_history_select(Begin, sel))

ClickLayer ==
    \E i \in 0..(Len(ed.layer_listbox) - 1) :
        Click(on_layer_select([Begin EXCEPT !.layer_sel = i]))

ClickAddLayer == Click(add_layer(Begin, ""))

ClickUp == Click(move_layer_up(Begin))

ClickDown == Click(move_layer_down(Begin))

ClickHideShow == Click(toggle_layer_visibility(Begin))

ClickDeleteLayer == Click(delete_layer(Begin))

Init ==
    /\ ed \in Documents
    /\ ret = NoCall
    /\ mouse_down = FALSE
    /\ nev = 0
    /\ gesture = GestureIdle

Next ==
    \/ SelectTool
    \/ OnLeftDown
    \/ OnLeftDrag
    \/ OnLeftUp
    \/ OnCtrlZ
    \/ OnCtrlY
    \/ OnKeyToggleAnchor
    \/ ClickHistory
    \/ ClickLayer
    \/ ClickAddLayer
    \/ ClickUp
    \/ ClickDown
    \/ ClickHideShow
    \/ ClickDeleteLayer

Spec == Init /\ [][Next]_vars

\* ---------------------------------------------------------- observers

\* An entry, the live document and the history as values: every address
\* replaced by what it holds.
EntryVal(st, e) ==
    [shapes |-> Deref(st.heap, e.shapes), layers |-> Deref(st.heap, e.layers),
     desc |-> e.desc]

HistoryVal(st) == [i \in DOMAIN st.states |-> EntryVal(st, st.states[i])]

LiveVal(st) ==
    [shapes |-> Deref(st.heap, ShapesAddr), layers |-> Deref(st.heap, LayersAddr)]

\* The entry e holds the live document.
HoldsLive(st, e) ==
    /\ Deref(st.heap, e.shapes) = Deref(st.heap, ShapesAddr)
    /\ Deref(st.heap, e.layers) = Deref(st.heap, LayersAddr)

\* What the user sees of the document besides the store: canvas and layer list.
ViewVal(st) == <<st.canvas, st.layer_listbox, st.layer_sel>>
\* ------------------------------------------- anchor editing, called directly
\* handle_add_anchor_click and round_erase_anchor_points called on the
\* documents, with the arguments kept in ret.

MaxClicks == 2

\* Where the clicks go: the ends of the line the documents hold, the middle
\* of it, and a point beside the middle.
AnchorPts == {<<10, 10>>, <<55, 25>>, <<52, 34>>, <<100, 40>>}

\* A bending line around a corner: its segments are a point, a vertical and
\* a horizontal.
DrawCorner == [tool |-> "Bend Tool C", path |-> <<<<10, 10>>, <<10, 40>>, <<100, 40>>>>]

DrawEllipse == [tool |-> "Ellipse", path |-> <<<<10, 10>>, <<100, 40>>>>]
WriteText == [tool |-> "Text", path |-> <<<<10, 10>>>>]

\* The documents the calls are made on: a line, a bending line, a rectangle,
\* an ellipse, a text.
AnchorDocuments ==
    {Drawn(Constructed, s, 1) :
        s \in {<<DrawLine>>, <<DrawCorner>>, <<DrawRectangle>>, <<DrawEllipse>>, <<WriteText>>}}

\* The points of coords.
PointsOf(coords) == {<<coords[i], coords[i + 1]>> : i \in {j \in 1..(Len(coords) - 1) : j % 2 = 1}}

\* A point at ERASER_RADIUS from the start and from the corner of the bending
\* line DrawCorner draws.
BetweenCorners == <<10, 25>>

\* Where the erasers go: where the clicks go, between the corners, and onto
\* the points of the item.
ErasePts(st, it) ==
    {<<Num(p[1]), Num(p[2])>> : p \in AnchorPts \cup {BetweenCorners}}
        \cup (IF HasShape(st, it) THEN PointsOf(CoordsOf(st, it)) ELSE {})

\* A direct call of a method of the editor that answers nothing.
Edited(name, args, after) ==
    /\ nev < MaxClicks
    /\ Commit(after)
    /\ ret' = [of |-> name, val |-> args]
    /\ nev' = nev + 1
    /\ UNCHANGED <<mouse_down, gesture>>

HandleAddAnchorClickAt(p, it) ==
    Edited("handle_add_anchor_click", [item |-> it, x |-> Num(p[1]), y |-> Num(p[2])],
           handle_add_anchor_click(Begin, Num(p[1]), Num(p[2]), it))

HandleAddAnchorClick == \E p \in AnchorPts, it \in Closest(ed) : HandleAddAnchorClickAt(p, it)

RoundEraseAnchorPointsAt(it, q, radius) ==
    Edited("round_erase_anchor_points", [item |-> it, x |-> q[1], y |-> q[2]],
           round_erase_anchor_points(Begin, it, q[1], q[2], radius))

RoundEraseAnchorPoints ==
    \E it \in Closest(ed) :
        \E q \in ErasePts(ed, it), radius \in {Rat(ERASER_RADIUS, 2), Num(ERASER_RADIUS)} :
            RoundEraseAnchorPointsAt(it, q, radius)

InitAnchor ==
    /\ ed \in AnchorDocuments
    /\ ret = NoCall
    /\ mouse_down = FALSE
    /\ nev = 0
    /\ gesture = GestureIdle

NextAnchor == HandleAddAnchorClick \/ RoundEraseAnchorPoints

SpecAnchor == InitAnchor /\ [][NextAnchor]_vars


\* ------------------------------------------------ geometry, called directly
\* The geometry functions of the editor applied to inputs drawn at the start:
\* ret holds the input, and after the call the function's name, the input
\* and what the function answered (for a function that changes the coords
\* list it is given, the list after the call).

\* The points of the segments and the query points.
GeomPts == {<<0, 0>>, <<0, -5>>, <<0, 5>>, <<10, 0>>, <<5, 0>>}

\* A point, and a segment from a to b.
SegmentCases == {[kind |-> "segment", p |-> p, a |-> a, b |-> b] : p, a, b \in GeomPts}

\* The coords lists the pushes are applied to: from (0,0) the points are at
\* 0, 50, 60, 60 and 100, from (10,0) at 10, about 44.7, 50, about 60.8
\* and 90.
PushChains == {<<0, 0, 30, 40, 60, 0, 0, 60, 100, 0>>, <<30, 40, 0, 60>>, <<>>}

\* Where the pointer was at the last event.
PushCentres == {<<0, 0>>, <<10, 0>>}

\* A coords list, the pointer's last position and the pointer's position.
PushCases ==
    {[kind |-> "push", coords |-> c, last |-> q, m |-> p] :
        c \in PushChains, q \in PushCentres, p \in GeomPts}

\* The coords lists the interpolations are applied to: a zigzag of five
\* points, and three points of which the first and the last are the same.
InterpChains == {<<0, 0, 7, 3, 1, 9, 4, 4, 12, 0>>, <<5, 5, 1, 2, 5, 5>>}

\* A coords list and two offsets of points of it.
InterpCases ==
    UNION {{[kind |-> "interp", coords |-> c, start_idx |-> a, end_idx |-> b] :
              a, b \in {i \in 0..(Len(c) - 2) : i % 2 = 0}} : c \in InterpChains}

GeomInputs == SegmentCases \cup PushCases \cup InterpCases

\* A list of numbers as the list of rationals the functions compute with.
Nums(s) == [i \in DOMAIN s |-> Num(s[i])]

\* The documents the methods that work on the Shape Store are called on: a
\* bending line around a corner (coords of 4 points, anchors 0, 4, 6), the
\* same with an anchor added on its last segment (5 points, anchors 0, 4, 6,
\* 6), the same with its last point erased (3 points, anchors 0, 4, 6), a
\* line, a rectangle, a line and a rectangle.
AddAnchorOnCorner == [tool |-> "Add Anchor", path |-> <<<<55, 40>>>>]
EraseCornerEnd == [tool |-> "Sharp Eraser", path |-> <<<<100, 40>>>>]

GeomDocuments ==
    {Drawn(Constructed, s, 1) :
        s \in {<<DrawCorner>>, <<DrawCorner, AddAnchorOnCorner>>, <<DrawCorner, EraseCornerEnd>>,
               <<DrawLine>>, <<DrawRectangle>>, <<DrawLine, DrawRectangle>>}}

\* An item of the document, or a handle the Shape Store does not hold.
ShapeCases(st) == {[kind |-> "shape", item |-> it] : it \in {ShapesDict(st)[i].id : i \in DOMAIN ShapesDict(st)} \cup {st.next_id}}

\* The coords lists update_coords is given.
NewCoords == {<<>>, <<1, 2, 3, 4>>, <<5, 5, 6, 6, 7, 7>>}

\* An item of the document, or a handle the Shape Store does not hold, and a
\* coords list.
CoordsCases(st) ==
    {[kind |-> "coords", item |-> it, new_coords |-> c] :
        it \in {ShapesDict(st)[i].id : i \in DOMAIN ShapesDict(st)} \cup {st.next_id},
        c \in NewCoords}

\* What the record at address a holds: its type, colours and width, its
\* coords and its anchors, <<"absent">> for a record that has no anchors key.
RecordHeld(st, a) ==
    [type |-> st.heap[a].type, fill |-> st.heap[a].fill, outline |-> st.heap[a].outline,
     width |-> st.heap[a].width, coords |-> st.heap[st.heap[a].coords].v,
     anchors |-> IF st.heap[a].anchors # NoAddr THEN st.heap[st.heap[a].anchors].v
                 ELSE <<"absent">>]

\* The Shape Store: its handles in their order, each with what its record
\* holds.
StoreVal(st) ==
    [i \in DOMAIN ShapesDict(st) |->
        [id |-> ShapesDict(st)[i].id, rec |-> RecordHeld(st, ShapesDict(st)[i].rec)]]

\* The coords and the anchors of the record of it, <<>> where there is none.
CoordsIn(st, it) == IF HasShape(st, it) THEN CoordsOf(st, it) ELSE <<>>
AnchorsIn(st, it) == IF HasShape(st, it) /\ HasAnchors(st, it) THEN AnchorsOf(st, it) ELSE <<>>

\* The input ret holds is of kind, and no function has been applied to it.
Given(kind) == ret.of = "input" /\ ret.val.kind = kind

\* name has been applied to the input and has answered out.
Applied(name, out) ==
    /\ ret' = [of |-> name, val |-> [in |-> ret.val, out |-> out]]
    /\ UNCHANGED <<ed, mouse_down, nev, gesture>>

PointSegmentDist ==
    /\ Given("segment")
    /\ Applied("point_segment_dist",
               point_segment_dist(Num(ret.val.p[1]), Num(ret.val.p[2]),
                                  Num(ret.val.a[1]), Num(ret.val.a[2]),
                                  Num(ret.val.b[1]), Num(ret.val.b[2])))

BendToolAPush ==
    /\ Given("push")
    /\ Applied("bend_tool_a_push",
               bend_tool_a_push(Nums(ret.val.coords), Num(ret.val.last[1]), Num(ret.val.last[2]),
                                Num(ret.val.m[1]), Num(ret.val.m[2])))

BendToolBPush ==
    /\ Given("push")
    /\ Applied("bend_tool_b_push",
               bend_tool_b_push(Nums(ret.val.coords), Num(ret.val.last[1]), Num(ret.val.last[2]),
                                Num(ret.val.m[1]), Num(ret.val.m[2])))

LocalAnchorInterpolation ==
    /\ Given("interp")
    /\ Applied("local_anchor_interpolation",
               local_anchor_interpolation(Nums(ret.val.coords), ret.val.start_idx, ret.val.end_idx))

ArcAnchorInterpolation ==
    /\ Given("interp")
    /\ Applied("arc_anchor_interpolation",
               arc_anchor_interpolation(Nums(ret.val.coords), ret.val.start_idx, ret.val.end_idx))

\* name has been called on the document; ret keeps the coords and the
\* anchors the item had and what the Shape Store held before the call.
CalledOn(name, after) ==
    /\ Commit(after)
    /\ ret' = [of |-> name,
               val |-> [in |-> ret.val, coords |-> CoordsIn(ed, ret.val.item),
                        anchors |-> AnchorsIn(ed, ret.val.item), store |-> StoreVal(ed)]]
    /\ UNCHANGED <<mouse_down, nev, gesture>>

ApplyAnchorInterpolation ==
    /\ Given("shape")
    /\ CalledOn("apply_anchor_interpolation", apply_anchor_interpolation(Begin, ret.val.item))

\* The caller's list after the caller has changed it in place: another
\* first number, and two numbers more.
Scribbled(coords) ==
    (IF coords = <<>> THEN <<>> ELSE [coords EXCEPT ![1] = RAdd(@, Num(1))]) \o <<Num(0), Num(0)>>

\* update_coords(item_id, new_coords) with new_coords a list of the caller
\* (at address caller), which the caller changes in place after the call.
update_then_scribble(st, caller, item_id) ==
    list_set(update_coords(st, item_id, st.heap[caller].v), caller,
             Scribbled(st.heap[caller].v))

UpdateCoords ==
    /\ Given("coords")
    /\ CalledOn("update_coords",
                update_then_scribble(New(Begin, [k |-> "list", v |-> Nums(ret.val.new_coords)]),
                                     Fresh(Begin), ret.val.item))

\* push_history as far as its call of auto_connect_lines, lines 434-435: the
\* snapshot is pushed and the history list box refreshed.
history_pushed(st, description) ==
    IF st.exc THEN st
    ELSE CHOOSE after \in {refresh_history_listbox([pushed_state EXCEPT !.pushes = @ + 1]) :
                              pushed_state \in {push_state(st, description)}} : TRUE

\* The editor where on_left_up of the Line tool calls auto_connect_lines: the
\* pointer has gone down at the first point of path and has been dragged to
\* the others, the line is finalized and the snapshot pushed.
LineDrawn(st, path) ==
    CHOOSE after \in {history_pushed(finalize_shape_creation(d), "Created Line") :
                         d \in {Dragged(s, path, 2) :
                                   s \in {Pressed(select_tool(st, "Line"), path[1])}}} : TRUE

\* A line far from the line DrawLine draws.
DrawFarLine == [tool |-> "Line", path |-> <<<<200, 90>>, <<300, 40>>>>]

\* The second line: from the end of the first chain, to its start, to its
\* end, from its start, and away from it.
ConnectPaths ==
    {<<<<104, 40>>, <<200, 90>>>>, <<<<200, 90>>, <<13, 14>>>>, <<<<200, 90>>, <<104, 40>>>>,
     <<<<13, 14>>, <<200, 90>>>>, <<<<200, 90>>, <<200, 160>>>>}

\* The line that joins the line of DrawLine and the line of DrawFarLine.
BridgePaths == {<<<<104, 40>>, <<196, 90>>>>, <<<<196, 90>>, <<104, 40>>>>}

\* The documents auto_connect_lines is called on: a line or a bending line
\* and a second line, two lines and a third between them.
ConnectDocuments ==
    {Collect(LineDrawn(Drawn(Constructed, s, 1), path)) :
        s \in {<<DrawLine>>, <<DrawBendingLine>>}, path \in ConnectPaths}
    \cup {Collect(LineDrawn(Drawn(Constructed, <<DrawLine, DrawFarLine>>, 1), path)) :
             path \in BridgePaths}

\* auto_connect_lines() on the document; ret keeps the Shape Store as it was
\* at the call.
AutoConnectLines ==
    /\ Given("connect")
    /\ Commit(auto_connect_lines(Begin))
    /\ ret' = [of |-> "auto_connect_lines", val |-> [in |-> ret.val, store |-> StoreVal(ed)]]
    /\ UNCHANGED <<mouse_down, nev, gesture>>

InitGeom ==
    /\ \/ ed = Constructed /\ ret \in {[of |-> "input", val |-> i] : i \in GeomInputs}
       \/ ed \in GeomDocuments
          /\ ret \in {[of |-> "input", val |-> i] : i \in ShapeCases(ed) \cup CoordsCases(ed)}
       \/ ed \in ConnectDocuments /\ ret = [of |-> "input", val |-> [kind |-> "connect"]]
    /\ mouse_down = FALSE
    /\ nev = 0
    /\ gesture = GestureIdle

NextGeom ==
    \/ PointSegmentDist
    \/ BendToolAPush
    \/ BendToolBPush
    \/ LocalAnchorInterpolation
    \/ ArcAnchorInterpolation
    \/ ApplyAnchorInterpolation
    \/ UpdateCoords
    \/ AutoConnectLines

SpecGeom == InitGeom /\ [][NextGeom]_vars
\* --------------------------------------------------------------- C1
\* C1: a push_state with current_index before the last index leaves the old
\* entries 0..current_index in their order, followed by the new entry, which
\* holds the live document, with current_index on it; and an entry that undo,
\* redo or go_to returns afterwards is the entry of states at current_index,
\* so a dropped entry is never returned again.
C1_BranchTruncation ==
    [][ /\ (HistAddLayer /\ ed.current_index < Len(ed.states) - 1) =>
             /\ Len(ed'.states) = ed.current_index + 2
             /\ SubSeq(HistoryVal(ed'), 1, ed.current_index + 1)
                  = SubSeq(HistoryVal(ed), 1, ed.current_index + 1)
             /\ HoldsLive(ed', ed'.states[Len(ed'.states)])
             /\ ed'.current_index = Len(ed'.states) - 1
        /\ (HistUndo \/ HistRedo \/ HistGoTo) =>
             /\ HistoryVal(ed') = HistoryVal(ed)
             /\ ret'.val # NoEntry => ret'.val = ed'.states[ed'.current_index + 1] ]_vars

\* C1's example: three commits, two undos, a fourth commit: two entries.
C1_Witness ==
    /\ nev = 4
    /\ ed.pushes = 1
    /\ Len(ed.states) = 2
    /\ ed.current_index = 1

\* --------------------------------------------------------------- C2
\* C2, as stated: a push_state on a history of MAX_HISTORY entries leaves
\* MAX_HISTORY entries, the old ones but the oldest in their order, then the
\* new entry, with current_index on it.
C2_AsStated ==
    [][ (Len(ed.states) = MAX_HISTORY /\ ed'.pushes = 1 /\ ToggleLayerVisibility) =>
           /\ Len(ed'.states) = MAX_HISTORY
           /\ SubSeq(HistoryVal(ed'), 1, MAX_HISTORY - 1) = Tail(HistoryVal(ed))
           /\ HoldsLive(ed', ed'.states[MAX_HISTORY])
           /\ ed'.current_index = MAX_HISTORY - 1 ]_vars

\* C2, amended: the same, for a push_state on a history of MAX_HISTORY entries
\* whose current_index is the last index (with current_index before it the
\* entries after it go first, and nothing is evicted).
C2_EvictionAtCapacity ==
    [][ (/\ Len(ed.states) = MAX_HISTORY
         /\ ed.current_index = MAX_HISTORY - 1
         /\ ed'.pushes = 1
         /\ ToggleLayerVisibility) =>
           /\ Len(ed'.states) = MAX_HISTORY
           /\ SubSeq(HistoryVal(ed'), 1, MAX_HISTORY - 1) = Tail(HistoryVal(ed))
           /\ HoldsLive(ed', ed'.states[MAX_HISTORY])
           /\ ed'.current_index = MAX_HISTORY - 1 ]_vars

\* MAX_HISTORY + 1 pushes on the empty history: the first one pushed is gone.
C2_Witness ==
    /\ ed.pushes = 1
    /\ Len(ed.states) = MAX_HISTORY
    /\ ed.current_index = MAX_HISTORY - 1
    /\ ed.states[1].desc = "Initial Setup"

\* --------------------------------------------------------------- C3
\* C3: states never holds more than MAX_HISTORY entries.
C3_Bounded == Len(ed.states) <= MAX_HISTORY

\* A push at capacity, after the constructor's two entries have gone.
C3_Witness ==
    /\ ed.pushes = 1
    /\ Len(ed.states) = MAX_HISTORY
    /\ \A i \in DOMAIN ed.states : ed.states[i].desc = "Toggled layer Layer 1"

\* --------------------------------------------------------------- C4
\* The history, the live document and its view are what they were.
Untouched ==
    /\ HistoryVal(ed') = HistoryVal(ed)
    /\ ed'.current_index = ed.current_index
    /\ LiveVal(ed') = LiveVal(ed)
    /\ ViewVal(ed') = ViewVal(ed)
    /\ ~ed'.exc

\* C4: undo at current_index 0 or on the empty history, redo at the last
\* index, go_to with an index outside 0..len(states)-1 return None and change
\* neither states nor current_index; do_undo, do_redo and on_history_select
\* then leave the live document as it was.
C4_Refusals ==
    [][ /\ (HistUndo /\ ed.current_index <= 0) => (ret'.val = NoEntry /\ Untouched)
        /\ (HistRedo /\ ed.current_index >= Len(ed.states) - 1) =>
              (ret'.val = NoEntry /\ Untouched)
        /\ \A idx \in -2..(Len(ed.states) + 1) :
              (HistGoToAt(idx) /\ (idx < 0 \/ idx >= Len(ed.states))) =>
                  (ret'.val = NoEntry /\ Untouched)
        /\ (DoUndo /\ ed.current_index <= 0) => Untouched
        /\ (DoRedo /\ ed.current_index >= Len(ed.states) - 1) => Untouched
        /\ (OnHistorySelectAt(NoIndex)) => Untouched ]_vars

\* A refusal with something to lose: go_to(-1) has just returned None on a
\* history of three entries whose current_index is before the last.
C4_Witness ==
    /\ ret = [of |-> "go_to", val |-> NoEntry]
    /\ Len(ed.states) = 3
    /\ ed.current_index = 1
    /\ Len(Layers(ed)) = 3

\* --------------------------------------------------------------- C5
\* The call has changed current_index to i and nothing else of the editor.
OnlyIndex(i) == ed' = [Begin EXCEPT !.current_index = i]

\* The entries are what they were, current_index is i, nothing was pushed.
EntriesKept(i) ==
    /\ HistoryVal(ed') = HistoryVal(ed)
    /\ ed'.current_index = i
    /\ ed'.pushes = 0

\* C5: a successful undo changes current_index by -1 and nothing else and
\* returns the entry at the new index, a successful redo changes it by +1,
\* go_to(i) sets it to i; do_undo, do_redo and on_history_select, which apply
\* the entry returned to the live document, leave every entry as it was and
\* push none.
C5_HistoryFrame ==
    [][ /\ (HistUndo /\ can_undo(ed)) =>
              /\ OnlyIndex(ed.current_index - 1)
              /\ ret'.val = ed.states[ed.current_index]
        /\ (HistRedo /\ can_redo(ed)) =>
              /\ OnlyIndex(ed.current_index + 1)
              /\ ret'.val = ed.states[ed.current_index + 2]
        /\ \A idx \in 0..(Len(ed.states) - 1) :
              HistGoToAt(idx) => (OnlyIndex(idx) /\ ret'.val = ed.states[idx + 1])
        /\ (DoUndo /\ can_undo(ed)) => EntriesKept(ed.current_index - 1)
        /\ (DoRedo /\ can_redo(ed)) => EntriesKept(ed.current_index + 1)
        /\ \A sel \in 0..(Len(ed.states) - 1) :
              OnHistorySelectAt(sel) => EntriesKept(sel) ]_vars

\* An undo has just returned the second of four entries, from the third.
C5_Witness ==
    /\ ret.of = "undo"
    /\ Len(ed.states) = 4
    /\ ed.current_index = 1
    /\ ret.val = ed.states[2]
    /\ Len(Layers(ed)) = 4

\* --------------------------------------------------------------- C6
\* The entries a step leaves in states: all of them when it has pushed
\* nothing, those up to current_index when it has (below capacity).
Surviving(st, pushes) == IF pushes = 0 THEN Len(st.states) ELSE st.current_index + 1

\* C6: whatever a handler does to the live Shape Store and the live layers,
\* the entries it leaves in the history hold the coords, anchors, style and
\* layer contents they held before it.
C6_SnapshotIndependence ==
    [][ Len(ed.states) + ed'.pushes <= MAX_HISTORY =>
           /\ Len(ed'.states) = Surviving(ed, ed'.pushes) + ed'.pushes
           /\ SubSeq(HistoryVal(ed'), 1, Surviving(ed, ed'.pushes))
                = SubSeq(HistoryVal(ed), 1, Surviving(ed, ed'.pushes)) ]_vars

\* A pointer event has changed geometry in place after the last push: the
\* current entry no longer holds the live document.
C6_Witness ==
    /\ mouse_down
    /\ gesture.changed
    /\ ed.pushes = 0
    /\ ed.current_index = Len(ed.states) - 1
    /\ Len(ShapesDict(ed)) = Len(ed.heap[ed.states[ed.current_index + 1].shapes].m)
    /\ ~HoldsLive(ed, ed.states[ed.current_index + 1])

\* --------------------------------------------------------------- C7
\* The objects the address a reaches.
Owned(st, a) == Range(Visit(st.heap, <<a>>, <<>>))

EntryOwned(st, e) == Owned(st, e.shapes) \cup Owned(st, e.layers)

\* No object is both of the live document and of an entry, or of two entries.
Separate(st) ==
    /\ \A i \in DOMAIN st.states :
          EntryOwned(st, st.states[i]) \cap (Owned(st, ShapesAddr) \cup Owned(st, LayersAddr)) = {}
    /\ \A i, j \in DOMAIN st.states :
          i # j => EntryOwned(st, st.states[i]) \cap EntryOwned(st, st.states[j]) = {}

\* A shape record without its handle: what a restore keeps of it.
RecordsVal(st, d) == [i \in DOMAIN st.heap[d].m |-> Deref(st.heap, st.heap[d].m[i].rec)]

\* The entry e can be drawn: no canvas item of it is refused.
Drawable(st, e) ==
    \A i \in DOMAIN st.heap[e.shapes].m :
        CanvasCountOk(CanvasKind(st.heap[st.heap[e.shapes].m[i].rec].type),
                      CanvasCoordsFor(st.heap[st.heap[e.shapes].m[i].rec].type,
                                      st.heap[st.heap[st.heap[e.shapes].m[i].rec].coords].v))

\* C7: the live document and the entries share no object, also after an
\* entry has been applied; and in a state whose current entry has been
\* applied (current_index is before the last index) a handler leaves that
\* entry and those before it as they were, and all of them when it pushes
\* nothing.
C7_RestoreIndependence ==
    [][ /\ Separate(ed')
        /\ (ed.current_index < Len(ed.states) - 1 /\ ed'.current_index = ed.current_index) =>
              /\ Len(ed'.states) = Len(ed.states)
              /\ HistoryVal(ed') = HistoryVal(ed)
        /\ (ed.current_index < Len(ed.states) - 1 /\ ed'.pushes > 0) =>
              SubSeq(HistoryVal(ed'), 1, ed.current_index + 1)
                = SubSeq(HistoryVal(ed), 1, ed.current_index + 1) ]_vars

\* An entry with a shape in it has been applied and the live shapes have
\* changed since: the entry can be drawn, so the restore has left its shapes,
\* and they are no longer the live ones.
C7_Witness ==
    /\ ed.current_index < Len(ed.states) - 1
    /\ ed.pushes = 0
    /\ ~ed.exc
    /\ gesture.changed
    /\ Len(ed.heap[ed.states[ed.current_index + 1].shapes].m) > 0
    /\ Drawable(ed, ed.states[ed.current_index + 1])
    /\ Len(ShapesDict(ed)) = Len(ed.heap[ed.states[ed.current_index + 1].shapes].m)
    /\ RecordsVal(ed, ShapesAddr) # RecordsVal(ed, ed.states[ed.current_index + 1].shapes)

\* --------------------------------------------------------------- C8
\* What the claim compares of a record.
RecordVal(st, ra) ==
    [type |-> st.heap[ra].type, coords |-> st.heap[st.heap[ra].coords].v,
     fill |-> st.heap[ra].fill, outline |-> st.heap[ra].outline, width |-> st.heap[ra].width,
     anchors |-> IF st.heap[ra].anchors = NoAddr THEN <<>> ELSE <<st.heap[st.heap[ra].anchors].v>>]

\* The one-to-one maps of the positions of the dict at address d.
Bijections(st, d) ==
    {f \in [DOMAIN st.heap[d].m -> DOMAIN st.heap[d].m] :
        \A i, j \in DOMAIN st.heap[d].m : i # j => f[i] # f[j]}

\* The handle the map f gives to the handle id of the dict at address d.
Renamed(st, d, f, id) ==
    IF \E i \in DOMAIN st.heap[d].m : st.heap[d].m[i].id = id
    THEN <<ShapesDict(st)[f[CHOOSE i \in DOMAIN st.heap[d].m : st.heap[d].m[i].id = id]].id>>
    ELSE <<>>

\* The live layer at address la is the layer at address ea of the entry, its
\* items renamed by f.
SameLayer(st, d, f, la, ea) ==
    /\ st.heap[la].name = st.heap[ea].name
    /\ st.heap[la].visible = st.heap[ea].visible
    /\ st.heap[la].locked = st.heap[ea].locked
    /\ Len(st.heap[st.heap[la].items].v) = Len(st.heap[st.heap[ea].items].v)
    /\ \A k \in DOMAIN st.heap[st.heap[ea].items].v :
          /\ <<st.heap[st.heap[la].items].v[k][1]>>
               = Renamed(st, d, f, st.heap[st.heap[ea].items].v[k][1])
          /\ st.heap[st.heap[la].items].v[k][2] = st.heap[st.heap[ea].items].v[k][2]

\* The live document is the entry e up to the names of the handles.
IsEntry(st, e) ==
    /\ Len(ShapesDict(st)) = Len(st.heap[e.shapes].m)
    /\ Len(Layers(st)) = Len(st.heap[e.layers].v)
    /\ \E f \in Bijections(st, e.shapes) :
          /\ \A i \in DOMAIN st.heap[e.shapes].m :
                RecordVal(st, ShapesDict(st)[f[i]].rec) = RecordVal(st, st.heap[e.shapes].m[i].rec)
          /\ \A n \in DOMAIN Layers(st) :
                SameLayer(st, e.shapes, f, Layers(st)[n], st.heap[e.layers].v[n])

\* C8, as stated: after do_undo, do_redo or on_history_select has applied the
\* entry that undo, redo or go_to returned, the live document is that entry
\* up to the names of the handles.
C8_RestoreIsEntry ==
    [][ ((OnCtrlZ /\ can_undo(ed)) \/ (OnCtrlY /\ can_redo(ed)) \/ ClickHistory) =>
            IsEntry(ed', ed'.states[ed'.current_index + 1]) ]_vars

\* --------------------------------------------------------------- C9
\* C9: a pointer-drag event, whatever the tool, leaves states and
\* current_index as they were and pushes nothing.
C9_DragKeepsHistory ==
    [][ OnLeftDrag =>
           /\ ed'.pushes = 0
           /\ Len(ed'.states) = Len(ed.states)
           /\ HistoryVal(ed') = HistoryVal(ed)
           /\ ed'.current_index = ed.current_index ]_vars

\* A drag has changed the geometry of the Shape Store.
C9_Witness ==
    /\ mouse_down
    /\ nev = 2
    /\ gesture.changed
    /\ gesture.pushes = 0
    /\ ed.current_tool = "Bend Tool C"
    /\ ed.temp_item # NoItem
    /\ HasShape(ed, ed.temp_item)
    /\ Len(CoordsOf(ed, ed.temp_item)) = 6

\* -------------------------------------------------------------- C10
\* C10, as stated: a pointer gesture that has created or changed geometry in
\* the Shape Store has pushed one entry when its pointer-up ends, and has
\* pushed it in the pointer-up.
C10_OnePushAtPointerUp ==
    [][ (OnLeftUp /\ gesture'.changed) =>
           /\ gesture'.pushes = 1
           /\ ed'.pushes = 1 ]_vars
\* --------------------------------------------------------------- C11
\* The handles of the Shape Store.
Stored(st) == {ShapesDict(st)[i].id : i \in DOMAIN ShapesDict(st)}

\* C11, as stated: in every reachable state the coords of every record of
\* the Shape Store have even length.
C11_EvenCoords == \A id \in Stored(ed) : Len(CoordsOf(ed, id)) % 2 = 0

\* Two lines drawn with a common start have been merged into one record of
\* three points by the auto-connect that follows the push at pointer-up.
C11_Witness ==
    /\ ed.current_tool = "Line" /\ nev = 3 /\ ~mouse_down /\ ed.pushes = 1 /\ ~ed.exc
    /\ \E id \in Stored(ed) : ShapeOf(ed, id).type = "line" /\ Len(CoordsOf(ed, id)) = 6
    /\ Cardinality(Stored(ed)) = 1

\* --------------------------------------------------------------- C12
\* The handles of the Shape Store whose record has the key anchors.
Anchored(st) == {id \in Stored(st) : HasAnchors(st, id)}

\* C12, as stated: in every reachable state every anchor offset of every
\* record is even and is an offset of a point of the record's coords:
\* 0 <= offset < len(coords).
C12_AnchorsInRange ==
    \A id \in Anchored(ed) :
        \A k \in DOMAIN AnchorsOf(ed, id) :
            /\ AnchorsOf(ed, id)[k] % 2 = 0
            /\ 0 <= AnchorsOf(ed, id)[k]
            /\ AnchorsOf(ed, id)[k] < Len(CoordsOf(ed, id))

\* --------------------------------------------------------------- C13
\* C13, as stated: in every reachable state the anchor offsets of a record
\* are pairwise distinct.
C13_AnchorsDistinct ==
    \A id \in Anchored(ed) :
        \A j, k \in DOMAIN AnchorsOf(ed, id) :
            j # k => AnchorsOf(ed, id)[j] # AnchorsOf(ed, id)[k]

\* --------------------------------------------------------------- C14
\* The records of the dict at address d: their addresses.
RecordsOf(st, d) == {st.heap[d].m[i].rec : i \in DOMAIN st.heap[d].m}

\* The record at address ra is a chain of at least two points, or no chain.
TwoPoints(st, ra) ==
    st.heap[ra].type \in LineTypes => Len(st.heap[st.heap[ra].coords].v) >= 4

\* C14, as stated: in every reachable state every line, brush and
\* bending_line record of the Shape Store and of every history entry has at
\* least 4 coordinates.
C14_ChainsHaveTwoPoints ==
    /\ \A ra \in RecordsOf(ed, ShapesAddr) : TwoPoints(ed, ra)
    /\ \A i \in DOMAIN ed.states :
          \A ra \in RecordsOf(ed, ed.states[i].shapes) : TwoPoints(ed, ra)

\* --------------------------------------------------------------- C15
\* on_left_down, lines 664 and 671: the radius of the two point erasers.
EraseRadius(tool) == IF tool = "Sharp Eraser" THEN Rat(ERASER_RADIUS, 2) ELSE Num(ERASER_RADIUS)

\* A press of a point eraser at p on the chain it removes points of the
\* chain and leaves fewer than 4 coordinates of it.
LeavesNoChain(st, p, it) ==
    /\ st.current_tool \in {"Sharp Eraser", "Round Eraser"}
    /\ HasShape(st, it)
    /\ ShapeOf(st, it).type \in LineTypes
    /\ Len(CoordsOf(st, it)) % 2 = 0
    /\ Len(kept_points(CoordsOf(st, it), Num(p[1]), Num(p[2]), EraseRadius(st.current_tool)))
         < Len(CoordsOf(st, it))
    /\ Len(kept_points(CoordsOf(st, it), Num(p[1]), Num(p[2]), EraseRadius(st.current_tool)))
         < 4

\* The layers' item lists, as values.
ItemLists(st) == [n \in DOMAIN Layers(st) |-> st.heap[st.heap[Layers(st)[n]].items].v]

\* C15, as stated: a point removal that would leave a chain with fewer than
\* 4 coordinates is refused: the record stays in the Shape Store and in its
\* layer with its coords and anchors as they were.
C15_RemovalRefused ==
    [][ \A p \in Pts, it \in Closest(ed) :
          (OnLeftDownAt(p, FALSE, it, TRUE) /\ LeavesNoChain(ed, p, it)) =>
             /\ HasShape(ed', it)
             /\ RecordVal(ed', RecAddr(ed', it)) = RecordVal(ed, RecAddr(ed, it))
             /\ ItemLists(ed') = ItemLists(ed) ]_vars

\* --------------------------------------------------------------- C16
\* The offsets of the points of coords that a point eraser of the radius at
\* (ex, ey) removes.
RemovedOffsets(coords, ex, ey, radius) ==
    {i \in 0..(Len(coords) - 2) :
        i % 2 = 0 /\ HypotLt(RSub(coords[i + 1], ex), RSub(coords[i + 2], ey), radius)}

\* The anchors that are left when the points at the offsets gone are removed:
\* the offsets of removed points go, each other offset moves down by 2 for
\* every removed point before it.
Reindexed(anchors, gone) ==
    LET kept == SelectSeq(anchors, LAMBDA a : a \notin gone)
    IN  [k \in DOMAIN kept |-> kept[k] - 2 * Cardinality({g \in gone : g < kept[k]})]

\* A press of a point eraser at p on the chain it removes points of it and
\* leaves a chain.
ErasesPoints(st, p, it) ==
    /\ st.current_tool \in {"Sharp Eraser", "Round Eraser"}
    /\ HasShape(st, it)
    /\ ShapeOf(st, it).type \in LineTypes
    /\ Len(CoordsOf(st, it)) % 2 = 0
    /\ RemovedOffsets(CoordsOf(st, it), Num(p[1]), Num(p[2]), EraseRadius(st.current_tool)) # {}
    /\ Len(CoordsOf(st, it))
         - 2 * Cardinality(RemovedOffsets(CoordsOf(st, it), Num(p[1]), Num(p[2]),
                                          EraseRadius(st.current_tool))) >= 4

\* C16, as stated: when points are removed from a chain, the offsets of the
\* removed points leave anchors and every later offset moves down by 2 for
\* each removed point before it.
C16_AnchorsReindexed ==
    [][ \A p \in Pts, it \in Closest(ed) :
          (OnLeftDownAt(p, FALSE, it, TRUE) /\ ErasesPoints(ed, p, it) /\ HasShape(ed', it)) =>
             AnchorsOf(ed', it) =
                Reindexed(AnchorsOf(ed, it),
                          RemovedOffsets(CoordsOf(ed, it), Num(p[1]), Num(p[2]),
                                         EraseRadius(ed.current_tool))) ]_vars

\* --------------------------------------------------------------- C17
\* The record of the handle it in the entry e, as a value.
EntryRecord(st, e, it) ==
    RecordVal(st, st.heap[e.shapes].m[CHOOSE i \in DOMAIN st.heap[e.shapes].m :
                                         st.heap[e.shapes].m[i].id = it].rec)

\* The last call was an Add Anchor click that has inserted a point into the
\* chain it: the click has pushed the entry 'Added anchor', and the entry
\* before it holds the chain as it was.
JustInserted(st, it) ==
    /\ ret.of = "handle_add_anchor_click"
    /\ ret.val.item = it
    /\ st.pushes = 1
    /\ st.current_index >= 1
    /\ HasShape(st, it)

\* The chain it as it was before the click.
BeforeInsert(st, it) == EntryRecord(st, st.states[st.current_index], it)

\* The offset the click has inserted its point at.
InsertedAt(st, it) ==
    find_closest_segment_index(ret.val.x, ret.val.y, BeforeInsert(st, it).coords) + 2

\* C17, as stated: an Add Anchor click on a line or brush record followed by
\* the removal of the point at the offset just inserted (an eraser on that
\* point that removes no other point) restores the record's coords and
\* anchors as they were before the click.
C17_AnchorRoundTrip ==
    [][ \A it \in Closest(ed) :
          \A q \in ErasePts(ed, it), radius \in {Rat(ERASER_RADIUS, 2), Num(ERASER_RADIUS)} :
             ( /\ JustInserted(ed, it)
               /\ BeforeInsert(ed, it).type \in {"line", "brush"}
               /\ Len(BeforeInsert(ed, it).coords) >= 4
               /\ q = <<CoordsOf(ed, it)[InsertedAt(ed, it) + 1],
                        CoordsOf(ed, it)[InsertedAt(ed, it) + 2]>>
               /\ RemovedOffsets(CoordsOf(ed, it), q[1], q[2], radius) = {InsertedAt(ed, it)}
               /\ RoundEraseAnchorPointsAt(it, q, radius) )
             => /\ HasShape(ed', it)
                /\ RecordVal(ed', RecAddr(ed', it)) = BeforeInsert(ed, it) ]_vars

\* --------------------------------------------------------------- C18
\* The point (px, py) is the point of the segment from (x1, y1) to (x2, y2)
\* nearest to (mx, my): the projection of (mx, my) onto the segment with its
\* parameter clamped to [0, 1], the segment's own point when it has no length.
IsClampedProjection(px, py, mx, my, x1, y1, x2, y2) ==
    IF x1 = x2 /\ y1 = y2 THEN px = x1 /\ py = y1
    ELSE /\ RMul(RSub(px, x1), RSub(y2, y1)) = RMul(RSub(py, y1), RSub(x2, x1))
         /\ RLe(Num(0), RAdd(RMul(RSub(px, x1), RSub(x2, x1)), RMul(RSub(py, y1), RSub(y2, y1))))
         /\ RLe(RAdd(RMul(RSub(px, x1), RSub(x2, x1)), RMul(RSub(py, y1), RSub(y2, y1))),
                SqLen(RSub(x2, x1), RSub(y2, y1)))
         /\ SqLen(RSub(mx, px), RSub(my, py)) = point_segment_dist2(mx, my, x1, y1, x2, y2)

SortedAscending(s) == \A j, k \in DOMAIN s : j < k => s[j] <= s[k]

\* after is before with one pair spliced in at offset i, the projection of
\* (mx, my) onto the segment that starts at offset i - 2.
SplicedAt(before, after, i, mx, my) ==
    /\ Len(after) = Len(before) + 2
    /\ SubSeq(after, 1, i) = SubSeq(before, 1, i)
    /\ SubSeq(after, i + 3, Len(after)) = SubSeq(before, i + 1, Len(before))
    /\ IsClampedProjection(after[i + 1], after[i + 2], mx, my,
                           before[i - 1], before[i], before[i + 1], before[i + 2])

\* C18: an Add Anchor click on a line, brush or bending_line record with at
\* least 4 coordinates, s the offset of the closest segment, inserts one pair
\* at offset s + 2 and leaves the pairs before and after it as they were; the
\* pair is the clamped projection of the click onto the segment; s + 2 is in
\* anchors, which is sorted ascending.
C18_InsertAnchor ==
    [][ \A p \in AnchorPts, it \in Closest(ed) :
          ( /\ HasShape(ed, it)
            /\ ShapeOf(ed, it).type \in LineTypes
            /\ Len(CoordsOf(ed, it)) >= 4
            /\ Len(CoordsOf(ed, it)) % 2 = 0
            /\ HandleAddAnchorClickAt(p, it) )
          => /\ HasShape(ed', it)
             /\ SplicedAt(CoordsOf(ed, it), CoordsOf(ed', it),
                          find_closest_segment_index(Num(p[1]), Num(p[2]), CoordsOf(ed, it)) + 2,
                          Num(p[1]), Num(p[2]))
             /\ find_closest_segment_index(Num(p[1]), Num(p[2]), CoordsOf(ed, it)) + 2
                   \in Range(AnchorsOf(ed', it))
             /\ Len(AnchorsOf(ed', it)) = Len(AnchorsOf(ed, it)) + 1
             /\ SortedAscending(AnchorsOf(ed', it)) ]_vars

\* A click beside the line has inserted the foot of the perpendicular, the
\* middle of the line, at offset 2.
C18_Witness ==
    /\ ret.of = "handle_add_anchor_click"
    /\ ret.val.x = Num(52) /\ ret.val.y = Num(34)
    /\ nev = 1 /\ ed.pushes = 1
    /\ HasShape(ed, ret.val.item)
    /\ ShapeOf(ed, ret.val.item).type = "line"
    /\ CoordsOf(ed, ret.val.item) = <<Num(10), Num(10), Num(55), Num(25), Num(100), Num(40)>>
    /\ AnchorsOf(ed, ret.val.item) = <<2>>

\* --------------------------------------------------------------- C19
\* C19: an Add Anchor click on a shape of a kind without anchor editing, or
\* on a canvas item that is not in the Shape Store, changes nothing: the
\* Shape Store, the layers and the history are as they were.
C19_AddAnchorNoOp ==
    [][ \A p \in AnchorPts, it \in Closest(ed) :
          ( /\ (~HasShape(ed, it) \/ ShapeOf(ed, it).type \notin LineTypes)
            /\ HandleAddAnchorClickAt(p, it) )
          => /\ ed'.pushes = 0
             /\ LiveVal(ed') = LiveVal(ed)
             /\ Len(ed'.states) = Len(ed.states)
             /\ HistoryVal(ed') = HistoryVal(ed)
             /\ ed'.current_index = ed.current_index ]_vars

\* The click has been made on a rectangle.
C19_Witness ==
    /\ ret.of = "handle_add_anchor_click"
    /\ nev = 1
    /\ HasShape(ed, ret.val.item)
    /\ ShapeOf(ed, ret.val.item).type = "rectangle"
    /\ ed.pushes = 0

\* --------------------------------------------------------------- C20
\* The coordinate lists find_closest_segment_index is asked about: the coords
\* of the chains of the store and their beginnings of even length.
SegmentInputs(st) ==
    UNION {{SubSeq(CoordsOf(st, id), 1, n) :
               n \in {m \in 0..Len(CoordsOf(st, id)) : m % 2 = 0}} :
             id \in {x \in Stored(st) : ShapeOf(st, x).type \in LineTypes}}

\* The squared distance of (mx, my) from the segment of coords at offset i.
SegmentDist2(mx, my, coords, i) ==
    point_segment_dist2(mx, my, coords[i + 1], coords[i + 2], coords[i + 3], coords[i + 4])

\* i is the lowest offset of a segment of coords nearest to (mx, my).
IsFirstClosest(mx, my, coords, i) ==
    /\ i % 2 = 0
    /\ 0 <= i /\ i <= Len(coords) - 4
    /\ \A j \in {k \in 0..(Len(coords) - 4) : k % 2 = 0} :
          /\ RLe(SegmentDist2(mx, my, coords, i), SegmentDist2(mx, my, coords, j))
          /\ j < i => RLt(SegmentDist2(mx, my, coords, i), SegmentDist2(mx, my, coords, j))

\* C20: on coords of even length with at least 4 entries
\* find_closest_segment_index answers the lowest even offset i,
\* 0 <= i <= len(coords) - 4, of a segment nearest to the query point; on
\* fewer than 4 entries it answers None.
C20_FindClosestSegment ==
    \A coords \in SegmentInputs(ed), p \in AnchorPts :
        IF Len(coords) < 4
        THEN find_closest_segment_index(Num(p[1]), Num(p[2]), coords) = NoIndex
        ELSE IsFirstClosest(Num(p[1]), Num(p[2]), coords,
                            find_closest_segment_index(Num(p[1]), Num(p[2]), coords))

\* A click on the start of the bending line, which its first two segments
\* both touch, has been given the first of them: the point is inserted at
\* offset 2.
C20_Witness ==
    /\ ret.of = "handle_add_anchor_click"
    /\ ret.val.x = Num(10) /\ ret.val.y = Num(10)
    /\ nev = 1 /\ ed.pushes = 1
    /\ HasShape(ed, ret.val.item)
    /\ ShapeOf(ed, ret.val.item).type = "bending_line"
    /\ Len(CoordsOf(ed, ret.val.item)) = 10
    /\ AnchorsOf(ed, ret.val.item) = <<0, 2, 4, 6>>

\* ------------------------------------------------------ C21
\* point_segment_dist has been applied to the point p and the segment a-b.
DistCalled(p, a, b) ==
    /\ ret.of = "point_segment_dist"
    /\ ret.val.in.p = p /\ ret.val.in.a = a /\ ret.val.in.b = b

\* C21 as stated: point_segment_dist(0, 0, 0, -5, 0, 5) returns 5.
C21_AsStated == DistCalled(<<0, 0>>, <<0, -5>>, <<0, 5>>) => ret.val.out = Num(5)

\* C21: point_segment_dist(0, 0, 0, -5, 0, 5) returns 0: the point (0,0) is
\* the middle of the segment from (0,-5) to (0,5), so its projection onto the
\* segment (t = 1/2) is the point itself.
C21_OnTheSegment == DistCalled(<<0, 0>>, <<0, -5>>, <<0, 5>>) => ret.val.out = Num(0)

C21_Witness == DistCalled(<<0, 0>>, <<0, -5>>, <<0, 5>>)

\* ------------------------------------------------------ C22
\* The projection parameter of p onto the segment from a to b, a # b:
\* ((p - a) . (b - a)) / |b - a|^2.
ProjectionParameter(p, a, b) ==
    Rat((p[1] - a[1]) * (b[1] - a[1]) + (p[2] - a[2]) * (b[2] - a[2]),
        (b[1] - a[1]) * (b[1] - a[1]) + (b[2] - a[2]) * (b[2] - a[2]))

\* The Euclidean distance from the point p to the point (qx, qy).
DistanceTo(p, qx, qy) == hypot(RSub(Num(p[1]), qx), RSub(Num(p[2]), qy))

\* a + t (b - a), one coordinate.
Projected(a, b, t) == RAdd(Num(a), RMul(t, Num(b - a)))

\* What C22 says point_segment_dist answers for p and the segment a-b.
ClampedDistance(p, a, b) ==
    IF a = b THEN DistanceTo(p, Num(a[1]), Num(a[2]))
    ELSE IF RLt(ProjectionParameter(p, a, b), Num(0)) THEN DistanceTo(p, Num(a[1]), Num(a[2]))
    ELSE IF RLt(Num(1), ProjectionParameter(p, a, b)) THEN DistanceTo(p, Num(b[1]), Num(b[2]))
    ELSE DistanceTo(p, Projected(a[1], b[1], ProjectionParameter(p, a, b)),
                       Projected(a[2], b[2], ProjectionParameter(p, a, b)))

\* C22: point_segment_dist clamps the projection to the segment: it answers
\* the distance from p to a when t < 0 or a = b, the distance from p to b
\* when t > 1, and the distance from p to a + t (b - a) otherwise; for
\* (10,0) and the segment (0,0)-(5,0) it answers 5.
C22_ClampedProjection ==
    ret.of = "point_segment_dist" =>
        /\ ret.val.out = ClampedDistance(ret.val.in.p, ret.val.in.a, ret.val.in.b)
        /\ DistCalled(<<10, 0>>, <<0, 0>>, <<5, 0>>) => ret.val.out = Num(5)

\* The call of the example: (10,0) projects beyond the end (5,0), t = 2.
C22_Witness ==
    /\ DistCalled(<<10, 0>>, <<0, 0>>, <<5, 0>>)
    /\ RLt(Num(1), ProjectionParameter(ret.val.in.p, ret.val.in.a, ret.val.in.b))
    /\ ret.val.out = Num(5)

\* ------------------------------------------------------ C23
\* The radius of the push that has been applied.
PushRadius == IF ret.of = "bend_tool_a_push" THEN 60 ELSE 50

\* The pair of coords at offset i is at radius or more from the centre c.
OutOfReach(coords, i, c, radius) ==
    (coords[i + 1] - c[1]) * (coords[i + 1] - c[1])
        + (coords[i + 2] - c[2]) * (coords[i + 2] - c[2]) >= radius * radius

\* The offsets of the pairs of coords.
Offsets(coords) == {i \in 0..(Len(coords) - 2) : i % 2 = 0}

\* C23: a push of bend_tool_a_push (radius 60) or bend_tool_b_push (radius
\* 50), centred on the pointer's last position, leaves every pair at radius
\* or more from the centre as it was, and leaves the number of entries as it
\* was.
C23_PushLocality ==
    ret.of \in {"bend_tool_a_push", "bend_tool_b_push"} =>
        /\ Len(ret.val.out) = Len(ret.val.in.coords)
        /\ \A i \in Offsets(ret.val.in.coords) :
              OutOfReach(ret.val.in.coords, i, ret.val.in.last, PushRadius) =>
                  /\ ret.val.out[i + 1] = Num(ret.val.in.coords[i + 1])
                  /\ ret.val.out[i + 2] = Num(ret.val.in.coords[i + 2])

\* bend_tool_b_push from (10,0) towards (0,5): (60,0), at 50 from the centre,
\* and the points further out have stayed, (30,40), within the radius, has
\* moved.
C23_Witness ==
    /\ ret.of = "bend_tool_b_push"
    /\ ret.val.in.coords = <<0, 0, 30, 40, 60, 0, 0, 60, 100, 0>>
    /\ ret.val.in.last = <<10, 0>> /\ ret.val.in.m = <<0, 5>>
    /\ ret.val.out[5] = Num(60) /\ ret.val.out[6] = Num(0)
    /\ ret.val.out[9] = Num(100)
    /\ ret.val.out[3] # Num(30) /\ ret.val.out[4] # Num(40)

\* ------------------------------------------------------ C24
\* The pair at offset i is the same in the coords lists before and after.
SamePair(before, after, i) ==
    /\ after[i + 1] = before[i + 1]
    /\ after[i + 2] = before[i + 2]

LowestOf(S) == CHOOSE x \in S : \A y \in S : x <= y
HighestOf(S) == CHOOSE x \in S : \A y \in S : y <= x

\* Between before and after the number of entries is the same, and so is
\* every pair that is at one of the offsets or not between two of them.
OnlyBetween(before, after, offsets) ==
    /\ Len(after) = Len(before)
    /\ \A i \in Offsets(before) :
          (offsets = {} \/ i \in offsets \/ i < LowestOf(offsets) \/ i > HighestOf(offsets))
              => SamePair(before, after, i)

\* C24: local_anchor_interpolation and arc_anchor_interpolation leave the
\* pairs at the two offsets they are given, the pairs before the lower and
\* after the higher of the two, and the length of coords as they were;
\* apply_anchor_interpolation leaves the pairs at the anchors of the record,
\* the pairs before its first and after its last anchor, and the length of
\* its coords as they were.
C24_InterpolationKeepsEnds ==
    /\ ret.of \in {"local_anchor_interpolation", "arc_anchor_interpolation"} =>
           OnlyBetween(Nums(ret.val.in.coords), ret.val.out,
                       {ret.val.in.start_idx, ret.val.in.end_idx})
    /\ ret.of = "apply_anchor_interpolation" =>
           OnlyBetween(ret.val.coords, CoordsIn(ed, ret.val.in.item), Range(ret.val.anchors))

\* apply_anchor_interpolation on the bending line with an anchor added
\* (anchors 0, 4, 6, 6): the pair at offset 2, between the anchors 0 and 4,
\* has gone from (10,10) to (10,25), the pair at offset 8, after the last
\* anchor, has stayed.
C24_Witness ==
    /\ ret.of = "apply_anchor_interpolation"
    /\ ret.val.anchors = <<0, 4, 6, 6>>
    /\ Len(ret.val.coords) = 10
    /\ ret.val.coords[4] = Num(10)
    /\ CoordsOf(ed, ret.val.in.item)[4] = Num(25)
    /\ SamePair(ret.val.coords, CoordsOf(ed, ret.val.in.item), 8)

\* ------------------------------------------------------ C25
\* Of the two offsets given, the lower and the higher, and the number of
\* pairs between them.
LowOffset == LowestOf({ret.val.in.start_idx, ret.val.in.end_idx})
HighOffset == HighestOf({ret.val.in.start_idx, ret.val.in.end_idx})
PairsBetween == (HighOffset - LowOffset) \div 2 - 1

\* (n + 1) * new = (n + 1 - i) * start + i * end for the coordinate k (1 for
\* x, 2 for y) of the i-th pair between the offsets.
EvenlySpaced(before, after, i, k) ==
    RMul(Num(PairsBetween + 1), after[LowOffset + 2 * i + k])
        = Num((PairsBetween + 1 - i) * before[LowOffset + k] + i * before[HighOffset + k])

\* C25: local_anchor_interpolation with n pairs between the two offsets sets
\* the i-th of them to start + (i / (n + 1)) * (end - start), answers the
\* same with the offsets in the opposite order, and changes nothing when
\* n = 0 (or the offsets are the same).
C25_EvenSpacing ==
    ret.of = "local_anchor_interpolation" =>
        /\ \A i \in 1..PairsBetween, k \in 1..2 :
              EvenlySpaced(ret.val.in.coords, ret.val.out, i, k)
        /\ ret.val.out = local_anchor_interpolation(Nums(ret.val.in.coords),
                                                    ret.val.in.end_idx, ret.val.in.start_idx)
        /\ PairsBetween <= 0 => ret.val.out = Nums(ret.val.in.coords)

\* The offsets 8 and 0 of the zigzag from (0,0) to (12,0), the higher one
\* first: the three pairs between are (3,0), (6,0) and (9,0).
C25_Witness ==
    /\ ret.of = "local_anchor_interpolation"
    /\ ret.val.in.start_idx = 8 /\ ret.val.in.end_idx = 0
    /\ ret.val.in.coords = <<0, 0, 7, 3, 1, 9, 4, 4, 12, 0>>
    /\ ret.val.out = Nums(<<0, 0, 3, 0, 6, 0, 9, 0, 12, 0>>)

\* ------------------------------------------------------ C26
\* The record as it was, with coords in the place of its coords.
WithCoords(rec, coords) == [rec EXCEPT !.coords = coords]

\* C26: update_coords(handle, new_coords) leaves the Shape Store as it was
\* but for the coords of the record of handle, which are new_coords as they
\* were at the call, whatever the caller does to its list afterwards; the
\* record's type, fill, outline, width and anchors and every other record
\* are as before, and for a handle not in the store nothing changes.
C26_UpdateCoordsFrame ==
    ret.of = "update_coords" =>
        StoreVal(ed) =
            [i \in DOMAIN ret.val.store |->
                IF ret.val.store[i].id = ret.val.in.item
                THEN [ret.val.store[i] EXCEPT
                         !.rec = WithCoords(@, Nums(ret.val.in.new_coords))]
                ELSE ret.val.store[i]]

\* update_coords has given the line of the document with a line and a
\* rectangle the coords [1, 2, 3, 4]; the rectangle is as it was.
C26_Witness ==
    /\ ret.of = "update_coords"
    /\ Len(ret.val.store) = 2
    /\ ret.val.in.item = ret.val.store[1].id
    /\ ret.val.store[1].rec.type = "line"
    /\ ret.val.in.new_coords = <<1, 2, 3, 4>>
    /\ CoordsOf(ed, ret.val.in.item) = Nums(<<1, 2, 3, 4>>)
    /\ ret.val.store[1].rec.coords # Nums(<<1, 2, 3, 4>>)
    /\ StoreVal(ed)[2] = ret.val.store[2]

\* ------------------------------------------------------ C27
\* The handle the drag of the current tool works on, for the tools that drag
\* a shape of the Shape Store: the one selected item of Select, the shape of
\* the anchor Direct Select drags, the target of the Bend Tools A and B, the
\* line Bend Tool C draws. NoItem when the drag has no such shape.
DragTarget(st) ==
    IF st.current_layer_index = NoIndex THEN NoItem
    ELSE IF st.heap[CurrentLayer(st)].locked \/ ~st.heap[CurrentLayer(st)].visible THEN NoItem
    ELSE IF st.current_tool = "Select"
    THEN IF st.select_rect_id = NoItem /\ Cardinality(st.selected_items) = 1
         THEN CHOOSE it \in st.selected_items : TRUE ELSE NoItem
    ELSE IF st.current_tool = "Direct Select"
    THEN IF st.direct_select_dragging_anchor # <<>>
         THEN st.direct_select_dragging_anchor[1] ELSE NoItem
    ELSE IF st.current_tool \in {"Bend Tool A", "Bend Tool B"}
    THEN IF st.bend_dragging THEN st.bend_target ELSE NoItem
    ELSE IF st.current_tool = "Bend Tool C" THEN st.temp_item
    ELSE NoItem

\* The drag comes late: the shape it works on is not in the Shape Store.
LateDrag(st) == DragTarget(st) # NoItem /\ ~HasShape(st, DragTarget(st))

\* C27, as stated: a pointer-drag whose target is no longer in the Shape
\* Store raises no error and leaves the Shape Store, the layers and the
\* history as they were.
C27_LateDragIgnored ==
    [][ \A p \in Pts :
          (LateDrag(ed) /\ OnLeftDragAt(p))
          => /\ ~ed'.exc
             /\ LiveVal(ed') = LiveVal(ed)
             /\ HistoryVal(ed') = HistoryVal(ed)
             /\ ed'.current_index = ed.current_index ]_vars

\* ------------------------------------------------------ C28
\* No shape, anchor or segment is targeted.
GestureTargetsUnset(st) ==
    /\ ~st.bend_dragging
    /\ st.bend_target = NoItem
    /\ st.bendA_dragging_anchor_idx = NoIndex
    /\ st.bendB_dragging_anchor_idx = NoIndex
    /\ st.bendA_segment_idx = NoIndex
    /\ st.direct_select_dragging_anchor = <<>>
    /\ st.temp_item = NoItem

\* C28, as stated: after every pointer-up event bend_dragging is false and
\* bend_target, bendA_dragging_anchor_idx, bendB_dragging_anchor_idx,
\* bendA_segment_idx, direct_select_dragging_anchor and temp_item are unset.
C28_IdleAfterPointerUp ==
    [][ \A p \in Pts : OnLeftUpAt(p) => GestureTargetsUnset(ed') ]_vars

\* ------------------------------------------------------ C29
\* The records of after that before does not hold or holds with other coords
\* or anchors.
Touched(before, after) ==
    {it \in Stored(after) :
        \/ ~HasShape(before, it)
        \/ CoordsIn(after, it) # CoordsIn(before, it)
        \/ AnchorsIn(after, it) # AnchorsIn(before, it)}

\* The shape of the gesture, as the state keeps it: for the Brush the item
\* selected, which at the first drag is the segment the pointer-down has
\* created; for the other tools the handle the drag works on.
GestureShape(st) ==
    IF st.current_tool = "Brush"
    THEN IF Cardinality(st.selected_items) = 1
         THEN CHOOSE it \in st.selected_items : TRUE ELSE NoItem
    ELSE DragTarget(st)

\* C29, as stated: a drag of Select, Direct Select, the Bend Tools A, B, C or
\* the Brush creates no record and changes the coords and anchors of no
\* record but the one targeted or created at pointer-down.
C29_OneShapePerGesture ==
    [][ \A p \in Pts :
          ( /\ ed.current_tool \in {"Select", "Direct Select", "Bend Tool A", "Bend Tool B",
                                   "Bend Tool C", "Brush"}
            /\ OnLeftDragAt(p) )
          => Touched(ed, ed') \subseteq {GestureShape(ed)} ]_vars

\* The handles listed in the items of the n-th layer, in their order.
LayerHandles(st, n) ==
    LET items == st.heap[st.heap[Layers(st)[n]].items].v
    IN  [k \in DOMAIN items |-> items[k][1]]

AnchorDragged(st) ==
    IF DragTarget(st) = NoItem \/ ~HasShape(st, DragTarget(st)) THEN <<>>
    ELSE IF ~HasAnchors(st, DragTarget(st)) THEN <<>>
    ELSE IF st.current_tool = "Bend Tool A" /\ st.bendA_active
            /\ st.bendA_dragging_anchor_idx # NoIndex
    THEN <<DragTarget(st), st.bendA_dragging_anchor_idx>>
    ELSE IF st.current_tool = "Direct Select"
            /\ st.direct_select_dragging_anchor[2] \in Range(AnchorsOf(st, DragTarget(st)))
    THEN <<DragTarget(st), st.direct_select_dragging_anchor[2]>>
    ELSE <<>>

\* The anchors next to the offset idx: the highest anchor below it and the
\* lowest anchor above it, those there are.
AnchorNeighbours(anchors, idx) ==
    {a \in Range(anchors) :
        \/ a < idx /\ \A b \in Range(anchors) : b < idx => b <= a
        \/ a > idx /\ \A b \in Range(anchors) : b > idx => a <= b}

\* The pairs of coords between the offsets lo and hi are evenly spaced on
\* the straight line from the pair at lo to the pair at hi.
EvenlyBetween(coords, lo, hi) ==
    LET n == (hi - lo) \div 2 - 1
    IN  \A i \in 1..n, k \in 1..2 :
            RMul(Num(n + 1), coords[lo + 2 * i + k])
                = RAdd(RMul(Num(n + 1 - i), coords[lo + k]), RMul(Num(i), coords[hi + k]))

\* The anchor at offset idx of the shape is at (x, y), and the pairs
\* between it and each of its neighbours are evenly spaced.
AnchorMovedTo(st, it, idx, x, y) ==
    /\ ~st.exc
    /\ HasShape(st, it)
    /\ idx + 2 <= Len(CoordsOf(st, it))
    /\ CoordsOf(st, it)[idx + 1] = x
    /\ CoordsOf(st, it)[idx + 2] = y
    /\ \A a \in AnchorNeighbours(AnchorsOf(st, it), idx) :
           IF a < idx THEN EvenlyBetween(CoordsOf(st, it), a, idx)
           ELSE EvenlyBetween(CoordsOf(st, it), idx, a)

\* C31, as stated: after each drag event that moves an anchor with a
\* previous or a next anchor (a Bend Tool A anchor drag, a Direct Select drag
\* of a point registered as an anchor) the anchor is at the pointer and the
\* pairs between it and each such neighbour are evenly spaced on the line
\* between the two anchors.
C31_InterpolatedAfterDrag ==
    [][ \A p \in Pts :
          ( /\ AnchorDragged(ed) # <<>>
            /\ AnchorNeighbours(AnchorsOf(ed, AnchorDragged(ed)[1]), AnchorDragged(ed)[2]) # {}
            /\ OnLeftDragAt(p) )
          => AnchorMovedTo(ed', AnchorDragged(ed)[1], AnchorDragged(ed)[2],
                           Num(p[1]), Num(p[2])) ]_vars

\* The same of the Bend Tool A alone.
BendAInterpolatedAfterDrag ==
    [][ \A p \in Pts :
          ( /\ ed.current_tool = "Bend Tool A"
            /\ AnchorDragged(ed) # <<>>
            /\ AnchorNeighbours(AnchorsOf(ed, AnchorDragged(ed)[1]), AnchorDragged(ed)[2]) # {}
            /\ OnLeftDragAt(p) )
          => AnchorMovedTo(ed', AnchorDragged(ed)[1], AnchorDragged(ed)[2],
                           Num(p[1]), Num(p[2])) ]_vars

\* ------------------------------------------------------ C32
\* C32, as stated: when an event has committed (push_history has returned),
\* the history entry at current_index is the live document up to the names
\* of the handles: the same shapes with equal type, coords, anchors and
\* style, the same layers and layer items.
C32_CommitHoldsLive ==
    (ed.pushes > 0 /\ ~ed.exc) => IsEntry(ed, ed.states[ed.current_index + 1])

\* ------------------------------------------------------ C33
\* C33, as stated: current_layer_index is unset or an index of the live
\* layers list, 0 <= current_layer_index < len(layers).
C33_CurrentLayerInRange ==
    \/ ed.current_layer_index = NoIndex
    \/ (0 <= ed.current_layer_index /\ ed.current_layer_index < Len(Layers(ed)))

\* ------------------------------------------------------ C34
\* The anchor offsets after a pair has been inserted at offset k, each
\* anchor staying with its point: those below k as they were, those at or
\* above k increased by 2, and k itself.
AnchorsShifted(anchors, k) ==
    {IF a < k THEN a ELSE a + 2 : a \in Range(anchors)} \cup {k}

\* C34, as stated: after an Add Anchor click has inserted a pair at offset
\* k, every anchor registered before identifies the point it identified
\* before (offsets below k unchanged, offsets at or above k increased by 2),
\* and the only new anchor is k.
C34_AnchorsFollowPoints ==
    [][ \A p \in AnchorPts, it \in Closest(ed) :
          ( /\ HasShape(ed, it)
            /\ ShapeOf(ed, it).type \in LineTypes
            /\ Len(CoordsOf(ed, it)) >= 4
            /\ Len(CoordsOf(ed, it)) % 2 = 0
            /\ HandleAddAnchorClickAt(p, it) )
          => /\ HasShape(ed', it)
             /\ Range(AnchorsOf(ed', it))
                  = AnchorsShifted(AnchorsOf(ed, it),
                        find_closest_segment_index(Num(p[1]), Num(p[2]), CoordsOf(ed, it)) + 2) ]_vars

\* ------------------------------------------------------ C35
\* The points of coords, in their order, each with its x before its y.
PointSeq(coords) == [i \in 1..(Len(coords) \div 2) |-> <<coords[2 * i - 1], coords[2 * i]>>]

\* The point sequences that join the chains of points a and b: one of them,
\* as it is or reversed point by point, ending within CONNECT_THRESHOLD of
\* where the other, as it is or reversed, starts, followed by that other
\* without its first point.
Joined(a, b) ==
    {q[1] \o Tail(q[2]) :
        q \in {r \in ({a, Reverse(a)} \X {b, Reverse(b)}) \cup ({b, Reverse(b)} \X {a, Reverse(a)}) :
                  Near(r[1][Len(r[1])], r[2][1])}}

\* auto_connect_lines has been called on a Shape Store of two chains, A
\* before B, an endpoint of A within CONNECT_THRESHOLD of an endpoint of B.
TwoChainsTouched ==
    /\ ret.of = "auto_connect_lines"
    /\ Len(ret.val.store) = 2
    /\ \A i \in 1..2 : ret.val.store[i].rec.type \in LineTypes
    /\ Joined(PointSeq(ret.val.store[1].rec.coords), PointSeq(ret.val.store[2].rec.coords)) # {}

\* C35, as stated: when auto_connect_lines merges the chains A and B, the
\* coords of the surviving shape are the points of one chain followed by
\* the points of the other, one of them reversed point by point where
\* needed, without the touching endpoint of the second; B is removed from
\* the Shape Store and from its layer.
C35_MergedChain ==
    TwoChainsTouched =>
        /\ ~ed.exc
        /\ Stored(ed) = {ret.val.store[1].id}
        /\ Len(CoordsOf(ed, ret.val.store[1].id)) % 2 = 0
        /\ PointSeq(CoordsOf(ed, ret.val.store[1].id))
              \in Joined(PointSeq(ret.val.store[1].rec.coords),
                         PointSeq(ret.val.store[2].rec.coords))
        /\ \A n \in DOMAIN Layers(ed) : \A k \in DOMAIN LayerHandles(ed, n) :
              LayerHandles(ed, n)[k] # ret.val.store[2].id

\* The same where the end of A touches the start of B or the start of A the
\* end of B, and no other two endpoints touch.
MergedInOrder ==
    ( /\ TwoChainsTouched
      /\ ~Near(Endpoint(ret.val.store[1].rec.coords, 0), Endpoint(ret.val.store[2].rec.coords, 0))
      /\ ~Near(Endpoint(ret.val.store[1].rec.coords, 1), Endpoint(ret.val.store[2].rec.coords, 1)) )
    => /\ ~ed.exc
       /\ Stored(ed) = {ret.val.store[1].id}
       /\ PointSeq(CoordsOf(ed, ret.val.store[1].id))
              \in Joined(PointSeq(ret.val.store[1].rec.coords),
                         PointSeq(ret.val.store[2].rec.coords))
       /\ \A n \in DOMAIN Layers(ed) : \A k \in DOMAIN LayerHandles(ed, n) :
              LayerHandles(ed, n)[k] # ret.val.store[2].id

\* ------------------------------------------------------ C36
\* The handles and the chains of the Shape Store auto_connect_lines was
\* called on.
HandlesBefore == {ret.val.store[i].id : i \in DOMAIN ret.val.store}
ChainsBefore == {i \in DOMAIN ret.val.store : ret.val.store[i].rec.type \in LineTypes}

\* The call has added no shape, has removed at most one shape less than
\* there were chains (each merge removes one), and has left no two chains
\* with endpoints within CONNECT_THRESHOLD of each other.
Connected ==
    /\ Stored(ed) \subseteq HandlesBefore
    /\ Cardinality(HandlesBefore \ Stored(ed)) <= Cardinality(ChainsBefore) - 1
    /\ ConnectPairs(ed) = {}

\* C36, as stated: auto_connect_lines, called on a Shape Store with n >= 1
\* chains, returns after at most n - 1 merges, each removing one shape and
\* adding none, and when it has returned no two distinct chains have
\* endpoints closer than CONNECT_THRESHOLD.
C36_AutoConnectReturns ==
    (ret.of = "auto_connect_lines" /\ ChainsBefore # {}) => (~ed.exc /\ Connected)

\* The same of the calls that return.
ConnectedOnReturn ==
    (ret.of = "auto_connect_lines" /\ ChainsBefore # {} /\ ~ed.exc) => Connected

\* ------------------------------------------------------ C37
\* The current layer is hidden or locked.
CurrentLayerClosed(st) ==
    /\ st.current_layer_index # NoIndex
    /\ st.current_layer_index < Len(Layers(st))
    /\ (st.heap[CurrentLayer(st)].locked \/ ~st.heap[CurrentLayer(st)].visible)

\* The Shape Store, the layers and the history are in after what they are
\* in before.
DocumentKept(before, after) ==
    /\ LiveVal(after) = LiveVal(before)
    /\ HistoryVal(after) = HistoryVal(before)
    /\ after.current_index = before.current_index

\* C37, as stated: while the current layer is hidden or locked, no
\* pointer-down, pointer-drag or pointer-up, with any tool, changes the
\* Shape Store, the layers or the history.
C37_ClosedLayerFrame ==
    [][ (CurrentLayerClosed(ed) /\ (OnLeftDown \/ OnLeftDrag \/ OnLeftUp))
            => DocumentKept(ed, ed') ]_vars

\* The same of pointer-down and pointer-drag alone.
ClosedLayerDownDragFrame ==
    [][ (CurrentLayerClosed(ed) /\ (OnLeftDown \/ OnLeftDrag)) => DocumentKept(ed, ed') ]_vars

\* ------------------------------------------------------ C38
\* current_index is -1 when the history is empty and an index of states
\* otherwise.
IndexInRange(st) ==
    IF st.states = <<>> THEN st.current_index = -1
    ELSE 0 <= st.current_index /\ st.current_index <= Len(st.states) - 1

\* C38: in every state reached by push_state, undo, redo and go_to,
\* current_index is -1 exactly when states is empty and otherwise
\* 0 <= current_index <= len(states) - 1; after every push_state it is
\* len(states) - 1.
C38_CurrentIndexInRange ==
    /\ [] IndexInRange(ed)
    /\ [][ HistAddLayer => ed'.current_index = Len(ed'.states) - 1 ]_vars

\* Three entries, current_index back at the first of them.
C38_Witness ==
    /\ Len(ed.states) = 3
    /\ ed.current_index = 0
    /\ ret.of \in {"undo", "go_to"}

\* ------------------------------------------------------ C39
\* The history after k calls of undo, and after k calls of redo.
RECURSIVE Undone(_, _)
Undone(st, k) == IF k = 0 THEN st ELSE Undone(undo(st).st, k - 1)

RECURSIVE Redone(_, _)
Redone(st, k) == IF k = 0 THEN st ELSE Redone(redo(st).st, k - 1)

\* C39: where undo succeeds, a redo right after it succeeds, brings
\* current_index back to what it was and returns the entry that was current;
\* where redo succeeds, an undo right after it does the same; k successful
\* undos followed by k redos end at the index they started from. A redo
\* called right after a successful undo returns the entry after the one the
\* undo returned.
C39_UndoRedoRoundTrip ==
    /\ [] /\ can_undo(ed) =>
               redo(undo(ed).st) = [st |-> ed, ret |-> ed.states[ed.current_index + 1]]
          /\ can_redo(ed) =>
               undo(redo(ed).st) = [st |-> ed, ret |-> ed.states[ed.current_index + 1]]
          /\ \A k \in 0..ed.current_index :
               /\ Undone(ed, k).current_index = ed.current_index - k
               /\ Redone(Undone(ed, k), k) = ed
    /\ [][ (HistRedo /\ ret.of = "undo" /\ ret.val # NoEntry) =>
              /\ ret'.val = ed.states[ed.current_index + 2]
              /\ ed'.current_index = ed.current_index + 1 ]_vars

\* On a history of three entries a redo has returned the last one, which is
\* the current one again: an undo or a go_to had left it.
C39_Witness ==
    /\ ret.of = "redo"
    /\ Len(ed.states) = 3
    /\ ed.current_index = 2
    /\ ret.val = ed.states[3]

\* ------------------------------------------------------ C40
\* coords without the pairs at the offsets gone, the others in their order.
WithoutPairs(coords, gone) ==
    LET ks == SelectSeq([i \in 1..(Len(coords) \div 2) |-> i], LAMBDA i : 2 * (i - 1) \notin gone)
    IN  [k \in 1..(2 * Len(ks)) |-> coords[2 * ks[(k + 1) \div 2] - (k % 2)]]

\* The records of the Shape Store but the one of the handle it, in their
\* order, as values.
OtherRecords(st, it) ==
    SelectSeq([i \in DOMAIN ShapesDict(st) |->
                  <<ShapesDict(st)[i].id, RecordVal(st, ShapesDict(st)[i].rec)>>],
              LAMBDA r : r[1] # it)

\* The record of it is what it was in before but for its coords.
StyleKept(before, after, it) ==
    /\ ShapeOf(after, it).type = ShapeOf(before, it).type
    /\ ShapeOf(after, it).fill = ShapeOf(before, it).fill
    /\ ShapeOf(after, it).outline = ShapeOf(before, it).outline
    /\ ShapeOf(after, it).width = ShapeOf(before, it).width

\* round_erase_anchor_points(it, q, radius) has acted on before as the claim
\* says.
PointsErased(before, after, it, q, radius) ==
    /\ ~after.exc
    /\ OtherRecords(after, it) = OtherRecords(before, it)
    /\ IF ~HasShape(before, it) \/ ShapeOf(before, it).type \notin LineTypes
       THEN LiveVal(after) = LiveVal(before)
       ELSE LET left == WithoutPairs(CoordsOf(before, it),
                                     RemovedOffsets(CoordsOf(before, it), q[1], q[2], radius))
            IN  IF Len(left) >= 4
                THEN /\ HasShape(after, it)
                     /\ CoordsOf(after, it) = left
                     /\ StyleKept(before, after, it)
                     /\ ItemLists(after) = ItemLists(before)
                ELSE /\ ~HasShape(after, it)
                     /\ \A n \in DOMAIN Layers(after) : \A k \in DOMAIN LayerHandles(after, n) :
                           LayerHandles(after, n)[k] # it
                     /\ it \notin after.selected_items

\* C40: round_erase_anchor_points with radius r at e removes from a line,
\* brush or bending_line record the pairs closer to e than r and keeps the
\* others in their order; when fewer than two pairs would remain, the record
\* leaves the Shape Store, its layer and the selection; records of other
\* kinds and every other record stay as they were.
C40_PointErasure ==
    [][ \A it \in Closest(ed) :
          \A q \in ErasePts(ed, it), radius \in {Rat(ERASER_RADIUS, 2), Num(ERASER_RADIUS)} :
             RoundEraseAnchorPointsAt(it, q, radius) => PointsErased(ed, ed', it, q, radius) ]_vars

\* The eraser at the corner (10,40) of the bending line has removed the
\* corner and left the two points at (10,10) and the end, in their order.
C40_Witness ==
    /\ ret.of = "round_erase_anchor_points"
    /\ ret.val.x = Num(10) /\ ret.val.y = Num(40)
    /\ HasShape(ed, ret.val.item)
    /\ ShapeOf(ed, ret.val.item).type = "bending_line"
    /\ CoordsOf(ed, ret.val.item) = <<Num(10), Num(10), Num(10), Num(10), Num(100), Num(40)>>
    /\ ~ed.exc

====
